---- MODULE Spec2Model ----
(***************************************************************************)
(* Offline-first synchronisation engine of the Folio mobile client:        *)
(* the Pending Operation Log (pending-operations.ts), the local store      *)
(* repositories, the remote API as seen by the client, and the Sync        *)
(* Orchestrator (sync-service.ts).                                          *)
(*                                                                         *)
(* Every async function is cut at its await points where another call can  *)
(* run in between; storage and network outcomes are chosen by the          *)
(* environment.                                                            *)
(***************************************************************************)
EXTENDS Integers, Sequences, FiniteSets, TLC

(***************************************************************************)
(* Bounds of the model.                                                    *)
(***************************************************************************)
MaxOps == 2
MaxLogOps == 3
MaxRetry == 1
MaxTime == 3
MaxLocal == 2
MaxSrv == 2
MaxCalls == 2
RaceOps == 1
MaxFaults == 2
MaxLinks == 1
MaxReviews == 6
MaxInterval == 10
MaxReps == 1
MaxStreakDays == 3

Titles == {"a", "b"}
NoTitle == ""

SyncEntityTypes == {"entry", "tag"}
OperationTypes == {"create", "update", "delete"}

\* Record ids: the local generator's ids and the server's ids never collide.
LocalId(n) == <<"local", n>>
ServerId(n) == <<"srv", n>>
NoId == <<"none", 0>>

\* Error messages of a failed remote or storage call.
NoError == ""
PlainErrors == {"NETWORK", "NOT_FOUND"}
ConflictError == "CONFLICT"
StorageError == "STORAGE"

VARIABLES
    log,        \* stored Pending Operation Log (sequence of PendingOperation)
    nextOp,     \* number of operation ids generated so far
    now,        \* the clock read by new Date()
    local,      \* local store: <<family, id>> -> row
    nextLocal,  \* number of local ids generated so far
    server,     \* remote store: <<family, id>> -> row
    nextSrv,    \* number of server ids generated so far
    conflictStore,  \* stored SyncConflict list
    nextConflict,   \* number of conflict ids generated so far
    metadata,   \* stored SyncMetadata
    state,      \* SyncService._state
    calls,      \* the sync()/uploadAllLocalData() calls: caller -> frame
    started,    \* number of calls made so far
    faults      \* number of failed storage and network calls so far

logVars == <<log, nextOp, now>>
storeVars == <<local, nextLocal, server, nextSrv>>
syncVars == <<conflictStore, nextConflict, metadata, state, calls, started, faults>>
vars == <<log, nextOp, now, local, nextLocal, server, nextSrv,
          conflictStore, nextConflict, metadata, state, calls, started, faults>>

(***************************************************************************)
(* Pending Operation Log (pending-operations.ts).                          *)
(***************************************************************************)

\* JSON.stringify(payload): the fields the upload reads survive the round
\* trip unchanged (strings); every other field of the snapshot is dropped
\* from the model.
Payload(eid, title) == [id |-> eid, title |-> title]

NewOp(id, entityType, entityId, operation, payload, t) ==
    [id |-> id, entityType |-> entityType, entityId |-> entityId,
     operation |-> operation, payload |-> payload, createdAt |-> t,
     retryCount |-> 0, lastError |-> NoError]

\* operations.findIndex(...): 0 when there is none.
FindIndex(ops, entityType, entityId) ==
    LET hits == {i \in DOMAIN ops :
                    ops[i].entityType = entityType /\ ops[i].entityId = entityId}
    IN IF hits = {} THEN 0 ELSE CHOOSE i \in hits : \A j \in hits : i <= j

FindIndexById(ops, id) ==
    LET hits == {i \in DOMAIN ops : ops[i].id = id}
    IN IF hits = {} THEN 0 ELSE CHOOSE i \in hits : \A j \in hits : i <= j

\* operations.splice(i, 1)
Splice(ops, i) == SubSeq(ops, 1, i - 1) \o SubSeq(ops, i + 1, Len(ops))

\* Mutant of add: never coalesces, always appends.
Add_AlwaysAppend(ops, id, entityType, entityId, operation, payload, t) ==
    Append(ops, NewOp(id, entityType, entityId, operation, payload, t))

\* Mutant of add: the operation found is always replaced by the incoming
\* one (a delete after a create stays queued as a delete).
Add_ReplaceAlways(ops, id, entityType, entityId, operation, payload, t) ==
    LET existingIndex == FindIndex(ops, entityType, entityId)
        newOp == NewOp(id, entityType, entityId, operation, payload, t)
    IN IF existingIndex > 0
       THEN [ops EXCEPT ![existingIndex] = newOp]
       ELSE Append(ops, newOp)

\* Mutant of add: the operation found is kept as it is (first write wins),
\* except that a delete after a create still drops the operation.
Add_FirstWriteWins(ops, id, entityType, entityId, operation, payload, t) ==
    LET existingIndex == FindIndex(ops, entityType, entityId)
        newOp == NewOp(id, entityType, entityId, operation, payload, t)
    IN IF existingIndex > 0
       THEN IF ops[existingIndex].operation = "create" /\ operation = "delete"
            THEN Splice(ops, existingIndex)
            ELSE ops
       ELSE Append(ops, newOp)

\* Mutant of add: the merged operation keeps the kind of the one found.
Add_KeepKind(ops, id, entityType, entityId, operation, payload, t) ==
    LET existingIndex == FindIndex(ops, entityType, entityId)
        newOp == NewOp(id, entityType, entityId, operation, payload, t)
    IN IF existingIndex > 0
       THEN LET existing == ops[existingIndex]
            IN IF existing.operation = "create" /\ operation = "update"
               THEN [ops EXCEPT ![existingIndex] =
                        [newOp EXCEPT !.operation = "create",
                                      !.id = existing.id,
                                      !.createdAt = existing.createdAt]]
               ELSE IF existing.operation = "create" /\ operation = "delete"
               THEN Splice(ops, existingIndex)
               ELSE [ops EXCEPT ![existingIndex] =
                        [newOp EXCEPT !.operation = existing.operation]]
       ELSE Append(ops, newOp)

\* pendingOperations.add: the stored log after the call.
Add(ops, id, entityType, entityId, operation, payload, t) ==
    LET existingIndex == FindIndex(ops, entityType, entityId)
        newOp == NewOp(id, entityType, entityId, operation, payload, t)
    IN IF existingIndex > 0
       THEN LET existing == ops[existingIndex]
            IN IF existing.operation = "create" /\ operation = "update"
               THEN [ops EXCEPT ![existingIndex] =
                        [newOp EXCEPT !.operation = "create",
                                      !.id = existing.id,
                                      !.createdAt = existing.createdAt]]
               ELSE IF existing.operation = "create" /\ operation = "delete"
               THEN Splice(ops, existingIndex)
               ELSE IF existing.operation = "update" /\ operation = "delete"
               THEN [ops EXCEPT ![existingIndex] =
                        [newOp EXCEPT !.operation = "delete"]]
               ELSE [ops EXCEPT ![existingIndex] = newOp]
       ELSE Append(ops, newOp)

\* pendingOperations.remove
Remove(ops, id) == SelectSeq(ops, LAMBDA op : op.id # id)

\* pendingOperations.removeMany
RemoveMany(ops, ids) == SelectSeq(ops, LAMBDA op : op.id \notin ids)

\* pendingOperations.markFailed
MarkFailed(ops, id, error) ==
    LET index == FindIndexById(ops, id)
    IN IF index > 0
       THEN [ops EXCEPT ![index] =
                [@ EXCEPT !.retryCount = @ + 1, !.lastError = error]]
       ELSE ops

\* pendingOperations.getCount
GetCount(ops) == Len(ops)

\* pendingOperations.getFailedOperations
GetFailedOperations(ops, maxRetries) ==
    SelectSeq(ops, LAMBDA op : op.retryCount >= maxRetries)

(***************************************************************************)
(* Local store (repositories) and remote store (API routers).               *)
(* A row keeps the fields reconciliation reads: title stands for the       *)
(* record's content fields, updatedAt, syncStatus and the soft-delete      *)
(* mark.  Rows are keyed by <<family, id>>.                                *)
(***************************************************************************)
Families == {"entry", "tag"}

Row(title, t, status) ==
    [title |-> title, updatedAt |-> t, syncStatus |-> status, deleted |-> FALSE]

SrvRow(title, t) == [title |-> title, updatedAt |-> t, deleted |-> FALSE]

\* findById: entries (and sources) hide soft-deleted rows, tags have none.
FindById(tbl, f, id) == <<f, id>> \in DOMAIN tbl /\ ~tbl[<<f, id>>].deleted

\* repository.create: a fresh local id, syncStatus pending.
RepoCreate(tbl, f, n, title, t) == (<<f, LocalId(n)>> :> Row(title, t, "pending")) @@ tbl

\* repository.update: null (no change) when findById finds nothing.
RepoUpdate(tbl, f, id, title, t) ==
    IF FindById(tbl, f, id)
    THEN [tbl EXCEPT ![<<f, id>>] =
             [@ EXCEPT !.title = title, !.updatedAt = t, !.syncStatus = "pending"]]
    ELSE tbl

\* repository.markSynced(id): UPDATE ... WHERE id = ?, whether or not the
\* row is soft-deleted; nothing happens when no row has that id.
MarkSynced(tbl, f, id) ==
    IF <<f, id>> \in DOMAIN tbl
    THEN [tbl EXCEPT ![<<f, id>>] = [@ EXCEPT !.syncStatus = "synced"]]
    ELSE tbl

\* EntriesRepository.markSynced(id, serverId): also re-keys the row.
MarkSyncedAs(tbl, id, serverId) ==
    LET row == [tbl[<<"entry", id>>] EXCEPT !.syncStatus = "synced"]
        rest == [k \in DOMAIN tbl \ {<<"entry", id>>} |-> tbl[k]]
    IN (<<"entry", serverId>> :> row) @@ rest

\* EntriesRepository.delete: soft delete, whatever the row's state.
RepoSoftDelete(tbl, f, id) ==
    IF <<f, id>> \in DOMAIN tbl
    THEN [tbl EXCEPT ![<<f, id>>] = [@ EXCEPT !.deleted = TRUE, !.syncStatus = "pending"]]
    ELSE tbl

\* TagsRepository.delete: the row is removed.
RepoHardDelete(tbl, f, id) == [k \in DOMAIN tbl \ {<<f, id>>} |-> tbl[k]]

\* getPendingSync: every row of the family with syncStatus pending.
GetPendingSync(tbl, f) ==
    {k \in DOMAIN tbl : k[1] = f /\ tbl[k].syncStatus = "pending"}

\* The server's rows a client can see (deletedAt IS NULL).
SrvLive(srv, f, id) == <<f, id>> \in DOMAIN srv /\ ~srv[<<f, id>>].deleted

\* routers create: the server assigns the id (nanoid).
SrvCreate(srv, f, n, title, t) == (<<f, ServerId(n)>> :> SrvRow(title, t)) @@ srv

\* routers update: only the fields sent are set.
SrvUpdate(srv, f, id, title) == [srv EXCEPT ![<<f, id>>] = [@ EXCEPT !.title = title]]

\* routers delete
SrvDelete(srv, f, id) == [srv EXCEPT ![<<f, id>>] = [@ EXCEPT !.deleted = TRUE]]

\* A set of keys as a sequence, newest updatedAt first (ORDER BY updated_at DESC).
RECURSIVE Sorted(_, _)
Sorted(tbl, keys) ==
    IF keys = {} THEN <<>>
    ELSE LET k == CHOOSE x \in keys :
                    \A y \in keys :
                        \/ tbl[x].updatedAt > tbl[y].updatedAt
                        \/ tbl[x].updatedAt = tbl[y].updatedAt /\ x[2][2] <= y[2][2]
         IN <<k>> \o Sorted(tbl, keys \ {k})

\* client.<family>.list: the live rows of the family.
SrvList(srv, f) == Sorted(srv, {k \in DOMAIN srv : k[1] = f /\ ~srv[k].deleted})

\* repository.list: the family's rows with deletedAt IS NULL, newest first.
RepoList(tbl, f) == Sorted(tbl, {k \in DOMAIN tbl : k[1] = f /\ ~tbl[k].deleted})
(***************************************************************************)
(* Sync Orchestrator (sync-service.ts).                                    *)
(***************************************************************************)
Callers == {"c1", "c2"}
ConflictStrategies == {"local", "remote", "manual"}
SyncStates == {"idle", "syncing", "error", "conflict"}

\* '{}' : the placeholder for an unknown remote snapshot.
EmptySnapshot == Payload(NoId, NoTitle)

ErrorEntry(entityType, entityId, error, conflict) ==
    [entityType |-> entityType, entityId |-> entityId, error |-> error,
     conflict |-> conflict]

\* The entry pushed when sync() is rejected or an exception escapes.
SyntheticError(error) == ErrorEntry("entry", NoId, error, FALSE)

Conflict(id, entityType, entityId, localData, remoteData, localAt, remoteAt) ==
    [id |-> id, entityType |-> entityType, entityId |-> entityId,
     localData |-> localData, remoteData |-> remoteData,
     localUpdatedAt |-> localAt, remoteUpdatedAt |-> remoteAt,
     resolved |-> FALSE, resolution |-> "none"]

SyncResult(success, uploaded, downloaded, errorCount, errors, conflictCount, conflicts) ==
    [success |-> success, uploadedCount |-> uploaded, downloadedCount |-> downloaded,
     conflictCount |-> conflictCount, errorCount |-> errorCount,
     errors |-> errors, conflicts |-> conflicts]

\* sync() while a pass is running (sync-service.ts 343-361).
RejectedResult ==
    SyncResult(FALSE, 0, 0, 1, <<SyntheticError("Sync already in progress")>>, 0, <<>>)

\* Mutant of determineSyncResult: a pass with errors is reported as partial.
DetermineSyncResult_PartialOnErrors(success, errorCount) ==
    IF success THEN "success" ELSE "partial"

\* determineSyncResult
DetermineSyncResult(success, errorCount) ==
    IF success THEN "success"
    ELSE IF errorCount > 0 THEN "failed"
    ELSE "partial"

\* A call's frame: its position, its locals, and what it returned.
\*   pc: idle | getAll | upload | settle | list | item | finish | done
\*       (uploadAllLocalData: pending | push | pushed | finishAll)
IdleFrame ==
    [pc |-> "idle", kind |-> "none", strategy |-> "local",
     ops |-> <<>>, i |-> 0, outcome |-> NoError,
     fam |-> "entry", items |-> <<>>,
     uploaded |-> 0, downloaded |-> 0, errors |-> <<>>, conflicts |-> <<>>,
     attempted |-> <<>>, seen |-> {}, fatal |-> FALSE, ret |-> <<>>,
     start |-> [local |-> <<>>, server |-> <<>>]]

\* The frame of a call that has returned ret and waits for its caller.
DoneFrame(kind, fatal, ret) ==
    [IdleFrame EXCEPT !.pc = "done", !.kind = kind, !.fatal = fatal, !.ret = <<ret>>]

Quiet == \A c \in Callers : calls[c].pc = "idle"

Init ==
    /\ log = <<>>
    /\ nextOp = 0
    /\ now = 0
    /\ local = <<>>
    /\ nextLocal = 0
    /\ server = <<>>
    /\ nextSrv = 0
    /\ conflictStore = <<>>
    /\ nextConflict = 0
    /\ metadata = [lastSyncAt |-> -1, lastSyncResult |-> "none",
                   pendingOperationsCount |-> 0, conflictsCount |-> 0]
    /\ state = "idle"
    /\ calls = [c \in Callers |-> IdleFrame]
    /\ started = 0
    /\ faults = 0

(***************************************************************************)
(* Local mutations with the device offline (createOfflineFirstDataService: *)
(* the repository write, then pendingOperations.add; isNetworkAvailable()  *)
(* is false, so no immediate remote attempt follows).                      *)
(***************************************************************************)
LocalCreate ==
    \E f \in Families, title \in Titles :
        /\ Quiet
        /\ now < MaxTime /\ nextOp < MaxOps /\ nextLocal < MaxLocal
        /\ local' = RepoCreate(local, f, nextLocal + 1, title, now + 1)
        /\ log' = Add(log, nextOp + 1, f, LocalId(nextLocal + 1), "create",
                      Payload(LocalId(nextLocal + 1), title), now + 1)
        /\ nextLocal' = nextLocal + 1
        /\ nextOp' = nextOp + 1
        /\ now' = now + 1
        /\ UNCHANGED <<server, nextSrv>>
        /\ UNCHANGED syncVars

LocalUpdate ==
    \E k \in DOMAIN local, title \in Titles :
        /\ Quiet
        /\ now < MaxTime /\ nextOp < MaxOps
        /\ FindById(local, k[1], k[2])
        /\ local' = RepoUpdate(local, k[1], k[2], title, now + 1)
        /\ log' = Add(log, nextOp + 1, k[1], k[2], "update", Payload(k[2], title), now + 1)
        /\ nextOp' = nextOp + 1
        /\ now' = now + 1
        /\ UNCHANGED <<nextLocal, server, nextSrv>>
        /\ UNCHANGED syncVars

LocalDelete ==
    \E k \in DOMAIN local :
        /\ Quiet
        /\ now < MaxTime /\ nextOp < MaxOps
        /\ FindById(local, k[1], k[2])
        /\ local' = IF k[1] = "tag" THEN RepoHardDelete(local, k[1], k[2])
                    ELSE RepoSoftDelete(local, k[1], k[2])
        /\ log' = Add(log, nextOp + 1, k[1], k[2], "delete", Payload(k[2], NoTitle), now + 1)
        /\ nextOp' = nextOp + 1
        /\ now' = now + 1
        /\ UNCHANGED <<nextLocal, server, nextSrv>>
        /\ UNCHANGED syncVars

\* EntriesRepository.markSynced(id, serverId) called by a user of the local
\* store to confirm a created entry under the server's canonical id.
ConfirmWithServerId ==
    \E k \in DOMAIN local, s \in DOMAIN server :
        /\ Quiet
        /\ k[1] = "entry" /\ s[1] = "entry" /\ k[2][1] = "local"
        /\ <<"entry", s[2]>> \notin DOMAIN local
        /\ local' = MarkSyncedAs(local, k[2], s[2])
        /\ UNCHANGED <<nextLocal, server, nextSrv>>
        /\ UNCHANGED logVars
        /\ UNCHANGED syncVars

\* Another client changes a record on the server.
ServerEdit ==
    \E s \in DOMAIN server, title \in Titles :
        /\ Quiet
        /\ now < MaxTime
        /\ ~server[s].deleted
        /\ server' = [server EXCEPT ![s] = [@ EXCEPT !.title = title, !.updatedAt = now + 1]]
        /\ now' = now + 1
        /\ UNCHANGED <<log, nextOp, local, nextLocal, nextSrv>>
        /\ UNCHANGED syncVars

(***************************************************************************)
(* sync(): start, upload phase.                                            *)
(***************************************************************************)
Frame(c) == calls[c]
SetFrame(c, fr) == calls' = [calls EXCEPT ![c] = fr]
\* The environment fails at most MaxFaults calls in a run.
Fault(failed) == IF failed THEN 1 ELSE 0
MayFail(n) == faults + n <= MaxFaults

CanCall(c) == calls[c].pc = "idle" /\ started < MaxCalls

\* sync-service.ts 343-361: rejected while a pass is running.
SyncReject(c) ==
    /\ CanCall(c)
    /\ state = "syncing"
    /\ SetFrame(c, DoneFrame("rejected", FALSE, RejectedResult))
    /\ started' = started + 1
    /\ UNCHANGED <<conflictStore, nextConflict, metadata, state, faults>>
    /\ UNCHANGED logVars
    /\ UNCHANGED storeVars

\* Mutant of the guard of sync(): a pass starts whatever the state is.
SyncGuard_Missing == TRUE

\* sync-service.ts 343: if (this._state === 'syncing') return ...
SyncGuard == state # "syncing"

\* sync-service.ts 363-378: setState('syncing'), loadSyncMetadata().
SyncStart(c) ==
    \E strategy \in ConflictStrategies :
        /\ CanCall(c)
        /\ SyncGuard
        /\ state' = "syncing"
        /\ SetFrame(c, [IdleFrame EXCEPT !.pc = "getAll", !.kind = "sync",
                                         !.strategy = strategy,
                                         !.start = [local |-> local, server |-> server]])
        /\ started' = started + 1
        /\ UNCHANGED <<conflictStore, nextConflict, metadata, faults>>
        /\ UNCHANGED logVars
        /\ UNCHANGED storeVars

\* uploadPendingOperations: operations = await pendingOperations.getAll();
\* loadOperations answers [] when the stored log cannot be read.
SyncGetAll(c) ==
    \E readable \in BOOLEAN :
        /\ Frame(c).pc = "getAll"
        /\ MayFail(Fault(~readable))
        /\ faults' = faults + Fault(~readable)
        /\ SetFrame(c, [Frame(c) EXCEPT !.pc = "upload", !.i = 1,
                                        !.ops = IF readable THEN log ELSE <<>>])
        /\ UNCHANGED <<conflictStore, nextConflict, metadata, state, started>>
        /\ UNCHANGED logVars
        /\ UNCHANGED storeVars

\* syncEntityByType: the entity types whose case makes a remote call.  The
\* join rows (entryTag, entrySource) fall to the switch's default branch,
\* which logs a warning and returns.  (Review operations, which go to
\* syncReview, are not queued in this model.)
RemoteTypes == {"entry", "tag", "source"}
RemoteCalled(op) == op.entityType \in RemoteTypes

\* What the remote call of syncEntityByType can answer for an operation:
\* the routers answer NOT_FOUND for a record they do not hold; an entry
\* update can be refused with CONFLICT; any call can fail on the network.
\* Without a remote call syncEntityByType just returns.
RemoteOutcomes(srv, n, op) ==
    IF ~RemoteCalled(op) THEN {"ok"}
    ELSE IF op.operation = "create"
    THEN (IF n < MaxSrv THEN {"ok"} ELSE {}) \cup {"NETWORK"}
    ELSE IF SrvLive(srv, op.entityType, op.payload.id)
    THEN {"ok", "NETWORK"}
            \cup (IF op.operation = "update" /\ op.entityType = "entry"
                  THEN {ConflictError} ELSE {})
    ELSE {"NOT_FOUND"}

\* A failure the environment chose (the forced answers are not counted).
ChosenFailure(outcomes, r) == r # "ok" /\ Cardinality(outcomes) > 1

\* The remote store after a successful call of syncEntry / syncTag.
RemoteApply(srv, n, op, t) ==
    IF ~RemoteCalled(op) THEN srv
    ELSE IF op.operation = "create"
    THEN SrvCreate(srv, op.entityType, n + 1, op.payload.title, t)
    ELSE IF op.operation = "update"
    THEN SrvUpdate(srv, op.entityType, op.payload.id, op.payload.title)
    ELSE SrvDelete(srv, op.entityType, op.payload.id)

\* processOperation, first await: syncEntityByType(op, ...).
SyncRemoteCall(c) ==
    LET fr == Frame(c) IN
    /\ fr.pc = "upload" /\ fr.i <= Len(fr.ops)
    /\ LET op == fr.ops[fr.i] IN
       \E r \in RemoteOutcomes(server, nextSrv, op) :
           /\ MayFail(Fault(ChosenFailure(RemoteOutcomes(server, nextSrv, op), r)))
           /\ faults' = faults + Fault(ChosenFailure(RemoteOutcomes(server, nextSrv, op), r))
           /\ server' = IF r = "ok" THEN RemoteApply(server, nextSrv, op, now) ELSE server
           /\ nextSrv' = IF r = "ok" /\ op.operation = "create" /\ RemoteCalled(op)
                         THEN nextSrv + 1 ELSE nextSrv
           /\ SetFrame(c, [fr EXCEPT !.pc = "settle", !.outcome = r,
                                     !.attempted = Append(@, op.id)])
    /\ UNCHANGED <<conflictStore, nextConflict, metadata, state, started>>
    /\ UNCHANGED <<local, nextLocal>>
    /\ UNCHANGED logVars

\* forceUpload: entries are deleted (failure ignored) and created again;
\* every other entity type throws.
ForceUploadOutcomes(n, op) ==
    IF op.entityType = "entry"
    THEN (IF n < MaxSrv THEN {"ok"} ELSE {}) \cup {"NETWORK"}
    ELSE {"NOT_IMPLEMENTED"}

ForceUploadApply(srv, n, op, fo, t) ==
    LET afterDelete == IF SrvLive(srv, "entry", op.payload.id)
                       THEN SrvDelete(srv, "entry", op.payload.id) ELSE srv
    IN IF op.entityType # "entry" THEN srv
       ELSE IF fo = "ok" THEN SrvCreate(afterDelete, "entry", n + 1, op.payload.title, t)
       ELSE afterDelete

\* How processOperation ends for remote outcome r:
\*   removed | failed | conflict | silent | fatal
\* w1: the write of pendingOperations.remove succeeds;
\* w2: the write of pendingOperations.markFailed succeeds.
MarkFailedEnd(ops, op, w2) ==
    IF FindIndexById(ops, op.id) > 0 /\ ~w2 THEN "fatal" ELSE "failed"

\* Mutant of handleConflictError: a failed force upload is passed over in
\* silence.
Settlement_ForceFailureSilent(ops, op, r, strategy, fo, w1, w2) ==
    IF r = "ok"
    THEN IF w1 THEN "removed" ELSE MarkFailedEnd(ops, op, w2)
    ELSE IF r = ConflictError
    THEN IF strategy = "local"
         THEN IF fo = "ok" /\ w1 THEN "removed" ELSE "silent"
         ELSE IF strategy = "manual" THEN "conflict"
         ELSE "silent"
    ELSE MarkFailedEnd(ops, op, w2)

\* Mutant of handleConflictError: a conflict under manual is handled as a
\* plain error.
Settlement_ManualFails(ops, op, r, strategy, fo, w1, w2) ==
    IF r = "ok"
    THEN IF w1 THEN "removed" ELSE MarkFailedEnd(ops, op, w2)
    ELSE IF r = ConflictError /\ strategy = "local"
    THEN IF fo = "ok" /\ w1 THEN "removed" ELSE MarkFailedEnd(ops, op, w2)
    ELSE IF r = ConflictError /\ strategy = "remote" THEN "silent"
    ELSE MarkFailedEnd(ops, op, w2)

Settlement(ops, op, r, strategy, fo, w1, w2) ==
    IF r = "ok"
    THEN IF w1 THEN "removed" ELSE MarkFailedEnd(ops, op, w2)
    ELSE IF r = ConflictError
    THEN IF strategy = "local"
         THEN IF fo = "ok" /\ w1 THEN "removed" ELSE MarkFailedEnd(ops, op, w2)
         ELSE IF strategy = "manual" THEN "conflict"
         ELSE "silent"
    ELSE MarkFailedEnd(ops, op, w2)

\* The message handed to markFailed and reported in errors[].
SettledError(r, w1) == IF r = "ok" THEN StorageError ELSE r

\* Mutant of the upload's error handling: a failed operation is dropped.
SettledLog_DropFailed(ops, op, how, r, w1) == Remove(ops, op.id)

\* The stored log after processOperation.
SettledLog(ops, op, how, r, w1) ==
    IF how = "removed" THEN Remove(ops, op.id)
    ELSE IF how = "failed" THEN MarkFailed(ops, op.id, SettledError(r, w1))
    ELSE ops

\* Mutant of the upload loop: it stops at the first failed operation.
LoopNext_BreakOnFailure(i, n, how) == IF how = "failed" THEN n + 1 ELSE i + 1

\* uploadPendingOperations: for (let i = 0; i < operations.length; i++)
LoopNext(i, n, how) == i + 1

\* The result sync()'s catch block returns when the exception escaped the
\* upload phase (nothing was merged into result yet).
CaughtResult(error) == SyncResult(FALSE, 0, 0, 1, <<SyntheticError(error)>>, 0, <<>>)

\* processOperation after the remote call: remove on success,
\* handleOperationError / handleConflictError otherwise; an exception of
\* markFailed escapes to sync()'s catch.
SyncSettle(c) ==
    LET fr == Frame(c)
        op == fr.ops[fr.i]
        r == fr.outcome
        forced == r = ConflictError /\ fr.strategy = "local"
    IN
    /\ fr.pc = "settle"
    /\ \E fo \in (IF forced THEN ForceUploadOutcomes(nextSrv, op) ELSE {"ok"}) :
       \E w1 \in (IF r = "ok" \/ (forced /\ fo = "ok") THEN BOOLEAN ELSE {TRUE}) :
       \E w2 \in (IF Settlement(log, op, r, fr.strategy, fo, w1, FALSE) = "fatal"
                  THEN BOOLEAN ELSE {TRUE}) :
        LET how == Settlement(log, op, r, fr.strategy, fo, w1, w2)
            cost == Fault(~w1) + Fault(~w2)
                      + Fault(forced /\ ChosenFailure(ForceUploadOutcomes(nextSrv, op), fo))
        IN
        /\ MayFail(cost)
        /\ faults' = faults + cost
        /\ server' = IF forced THEN ForceUploadApply(server, nextSrv, op, fo, now) ELSE server
        /\ nextSrv' = IF forced /\ fo = "ok" THEN nextSrv + 1 ELSE nextSrv
        /\ log' = SettledLog(log, op, how, r, w1)
        /\ nextConflict' = IF how = "conflict" THEN nextConflict + 1 ELSE nextConflict
        /\ state' = IF how = "fatal" THEN "error" ELSE state
        /\ SetFrame(c,
              IF how = "fatal"
              THEN DoneFrame("sync", TRUE, CaughtResult(StorageError))
              ELSE [fr EXCEPT
                       !.pc = "upload", !.i = LoopNext(fr.i, Len(fr.ops), how),
                       !.outcome = NoError,
                       !.uploaded = IF how = "removed" THEN @ + 1 ELSE @,
                       !.errors = IF how = "failed"
                                  THEN Append(@, ErrorEntry(op.entityType, op.entityId,
                                                 SettledError(r, w1), r = ConflictError))
                                  ELSE @,
                       !.conflicts = IF how = "conflict"
                                     THEN Append(@, Conflict(nextConflict + 1, op.entityType,
                                                    op.entityId, op.payload, EmptySnapshot,
                                                    op.createdAt, now))
                                     ELSE @])
    /\ UNCHANGED <<conflictStore, metadata, started>>
    /\ UNCHANGED <<local, nextLocal>>
    /\ UNCHANGED <<nextOp, now>>

\* The loop of uploadPendingOperations is over: downloadFromServer starts.
SyncUploadDone(c) ==
    LET fr == Frame(c) IN
    /\ fr.pc = "upload" /\ fr.i > Len(fr.ops)
    /\ SetFrame(c, [fr EXCEPT !.pc = "list", !.fam = "entry", !.i = 0])
    /\ UNCHANGED <<conflictStore, nextConflict, metadata, state, started, faults>>
    /\ UNCHANGED logVars
    /\ UNCHANGED storeVars

(***************************************************************************)
(* sync(): download phase (downloadFromServer) and completion.             *)
(***************************************************************************)
\* What client.<family>.list returns: copies of the live rows.
ListItems(srv, f) ==
    LET keys == SrvList(srv, f)
    IN [n \in DOMAIN keys |->
           [id |-> keys[n][2], title |-> srv[keys[n]].title,
            updatedAt |-> srv[keys[n]].updatedAt]]

\* downloadEntries / downloadTags: the list call; when it throws,
\* downloadFromServer's catch reports it and skips what is left.
SyncList(c) ==
    LET fr == Frame(c) IN
    /\ fr.pc = "list"
    /\ \E answered \in BOOLEAN :
          /\ MayFail(Fault(~answered))
          /\ faults' = faults + Fault(~answered)
          /\ SetFrame(c, IF answered
                         THEN [fr EXCEPT !.pc = "item", !.i = 1,
                                         !.items = ListItems(server, fr.fam)]
                         ELSE [fr EXCEPT !.pc = "finish", !.items = <<>>,
                                         !.errors = Append(@, SyntheticError("NETWORK"))])
    /\ UNCHANGED <<conflictStore, nextConflict, metadata, state, started>>
    /\ UNCHANGED logVars
    /\ UNCHANGED storeVars

\* createLocalEntry / createLocalTag: repository.create(...) under a new
\* local id, then markSynced(server id).
CreateLocalFromServer(tbl, f, n, item, t) ==
    MarkSynced(RepoCreate(tbl, f, n, item.title, t), f, item.id)

\* Mutant of updateLocalEntry: the record is not marked synced.
UpdateLocalFromServer_NoMark(tbl, f, item, t) == RepoUpdate(tbl, f, item.id, item.title, t)

\* updateLocalEntry / updateLocalTag: repository.update, then markSynced.
UpdateLocalFromServer(tbl, f, item, t) ==
    MarkSynced(RepoUpdate(tbl, f, item.id, item.title, t), f, item.id)

\* Mutant of handleEntryConflict: the timestamps are not compared.
Reconcile_NoTimestampCheck(tbl, f, item, strategy) ==
    IF ~FindById(tbl, f, item.id) THEN "create"
    ELSE IF tbl[<<f, item.id>>].syncStatus = "synced" THEN "update"
    ELSE IF f = "entry" /\ tbl[<<f, item.id>>].syncStatus = "pending"
    THEN IF strategy = "remote" THEN "update"
         ELSE IF strategy = "manual" THEN "conflict"
         ELSE "skip"
    ELSE "skip"

\* How one server record is reconciled (processServerEntry,
\* handleEntryConflict, and the loop bodies of downloadTags):
\*   create | update | conflict | skip
Reconcile(tbl, f, item, strategy) ==
    IF ~FindById(tbl, f, item.id) THEN "create"
    ELSE IF tbl[<<f, item.id>>].syncStatus = "synced" THEN "update"
    ELSE IF f = "entry" /\ tbl[<<f, item.id>>].syncStatus = "pending"
    THEN IF item.updatedAt <= tbl[<<f, item.id>>].updatedAt THEN "skip"
         ELSE IF strategy = "remote" THEN "update"
         ELSE IF strategy = "manual" THEN "conflict"
         ELSE "skip"
    ELSE "skip"

\* Where an iteration of the download loop can throw: nowhere; before its
\* first write (findById, or the insert / update itself); or after that
\* write (the read back, or markSynced), which only the create and update
\* paths have.
ItemThrows(what) ==
    IF what \in {"create", "update"} THEN {"no", "before", "after"} ELSE {"no", "before"}

\* The local store after an iteration: both writes, the first one only, or
\* none.
ItemApply(tbl, f, n, item, what, throws, t) ==
    IF throws = "before" \/ what \notin {"create", "update"} THEN tbl
    ELSE IF what = "create"
    THEN IF throws = "after" THEN RepoCreate(tbl, f, n, item.title, t)
         ELSE CreateLocalFromServer(tbl, f, n, item, t)
    ELSE IF throws = "after" THEN RepoUpdate(tbl, f, item.id, item.title, t)
         ELSE UpdateLocalFromServer(tbl, f, item, t)

\* One iteration of the download loop; a throwing local store call is
\* caught per item and reported.
SyncItem(c) ==
    LET fr == Frame(c) IN
    /\ fr.pc = "item" /\ fr.i <= Len(fr.items)
    /\ LET item == fr.items[fr.i]
           f == fr.fam
           what == Reconcile(local, f, item, fr.strategy)
       IN \E throws \in ItemThrows(what) :
           LET inserted == what = "create" /\ throws # "before"
               failed == throws # "no"
               chosen == failed /\ (what = "create" => nextLocal < MaxLocal)
           IN
           /\ inserted => nextLocal < MaxLocal
           /\ MayFail(Fault(chosen))
           /\ faults' = faults + Fault(chosen)
           /\ local' = ItemApply(local, f, nextLocal + 1, item, what, throws, now)
           /\ nextLocal' = IF inserted THEN nextLocal + 1 ELSE nextLocal
           /\ nextConflict' = IF ~failed /\ what = "conflict"
                              THEN nextConflict + 1 ELSE nextConflict
           /\ SetFrame(c, [fr EXCEPT
                 !.i = @ + 1,
                 !.seen = @ \cup {<<f, item.id>>},
                 !.downloaded = IF ~failed /\ what \in {"create", "update"} THEN @ + 1 ELSE @,
                 !.errors = IF failed
                            THEN Append(@, ErrorEntry(f, item.id, "DB", FALSE)) ELSE @,
                 !.conflicts =
                     IF ~failed /\ what = "conflict"
                     THEN Append(@, Conflict(nextConflict + 1, f, item.id,
                                     Payload(item.id, local[<<f, item.id>>].title),
                                     Payload(item.id, item.title),
                                     local[<<f, item.id>>].updatedAt, item.updatedAt))
                     ELSE @])
    /\ UNCHANGED <<conflictStore, metadata, state, started>>
    /\ UNCHANGED <<server, nextSrv>>
    /\ UNCHANGED logVars

\* The loop over one family is over: the next family, or completion.
SyncItemsDone(c) ==
    LET fr == Frame(c) IN
    /\ fr.pc = "item" /\ fr.i > Len(fr.items)
    /\ SetFrame(c, IF fr.fam = "entry"
                   THEN [fr EXCEPT !.pc = "list", !.fam = "tag", !.items = <<>>, !.i = 0]
                   ELSE [fr EXCEPT !.pc = "finish", !.items = <<>>, !.i = 0])
    /\ UNCHANGED <<conflictStore, nextConflict, metadata, state, started, faults>>
    /\ UNCHANGED logVars
    /\ UNCHANGED storeVars

\* Mutant of the final state: a pass with conflicts ends in error.
FinalState_ErrorOnConflict(conflictCount) == IF conflictCount > 0 THEN "error" ELSE "idle"

\* sync-service.ts 433
FinalState(conflictCount) == IF conflictCount > 0 THEN "conflict" ELSE "idle"

\* Mutant of the result's counts: success even with errors.
FinalResult_AlwaysSuccess(fr) ==
    SyncResult(TRUE, fr.uploaded, fr.downloaded,
               Len(fr.errors), fr.errors, Len(fr.conflicts), fr.conflicts)

\* sync-service.ts 413-416: the result of a pass that ran to completion.
FinalResult(fr) ==
    SyncResult(Len(fr.errors) = 0, fr.uploaded, fr.downloaded,
               Len(fr.errors), fr.errors, Len(fr.conflicts), fr.conflicts)

\* sync-service.ts 413-455: counts, saveSyncMetadata, saveConflicts,
\* setState, return.
SyncFinish(c) ==
    LET fr == Frame(c)
        res == FinalResult(fr)
    IN
    /\ fr.pc = "finish"
    /\ metadata' = [lastSyncAt |-> now,
                    lastSyncResult |-> DetermineSyncResult(res.success, res.errorCount),
                    pendingOperationsCount |-> GetCount(log),
                    conflictsCount |-> res.conflictCount]
    /\ conflictStore' = IF Len(res.conflicts) > 0
                        THEN conflictStore \o res.conflicts ELSE conflictStore
    /\ state' = FinalState(res.conflictCount)
    /\ SetFrame(c, DoneFrame("sync", FALSE, res))
    /\ UNCHANGED <<nextConflict, started, faults>>
    /\ UNCHANGED logVars
    /\ UNCHANGED storeVars

(***************************************************************************)
(* uploadAllLocalData().                                                   *)
(***************************************************************************)
\* sync-service.ts 1189-1202: no check of the state; setState('syncing').
UploadAllStart(c) ==
    /\ CanCall(c)
    /\ state' = "syncing"
    /\ SetFrame(c, [IdleFrame EXCEPT !.pc = "pending", !.kind = "uploadAll",
                                     !.fam = "entry"])
    /\ started' = started + 1
    /\ UNCHANGED <<conflictStore, nextConflict, metadata, faults>>
    /\ UNCHANGED logVars
    /\ UNCHANGED storeVars

\* Rows in the order the table returns them.
RECURSIVE InOrder(_)
InOrder(keys) ==
    IF keys = {} THEN <<>>
    ELSE LET k == CHOOSE x \in keys :
                    \A y \in keys :
                        \/ x[2][2] < y[2][2]
                        \/ x[2][2] = y[2][2] /\ (x[2][1] = "local" \/ y[2][1] = "srv")
         IN <<k>> \o InOrder(keys \ {k})

\* uploadPendingEntries / uploadPendingTags: getPendingSync(userId); when
\* the read throws, uploadAllLocalData's catch block ends the call
\* (sync-service.ts 1236-1246).
UploadAllPending(c) ==
    LET fr == Frame(c)
        keys == InOrder(GetPendingSync(local, fr.fam))
    IN
    /\ fr.pc = "pending"
    /\ \E readable \in BOOLEAN :
          /\ MayFail(Fault(~readable))
          /\ faults' = faults + Fault(~readable)
          /\ state' = IF readable THEN state ELSE "error"
          /\ SetFrame(c,
                IF readable
                THEN [fr EXCEPT !.pc = "push", !.i = 1,
                                !.items = [n \in DOMAIN keys |->
                                              [id |-> keys[n][2],
                                               title |-> local[keys[n]].title,
                                               updatedAt |-> local[keys[n]].updatedAt]]]
                ELSE DoneFrame("uploadAll", TRUE,
                               SyncResult(FALSE, fr.uploaded, 0, 1,
                                          Append(fr.errors, SyntheticError("DB")),
                                          0, <<>>)))
    /\ UNCHANGED <<conflictStore, nextConflict, metadata, started>>
    /\ UNCHANGED logVars
    /\ UNCHANGED storeVars

\* One iteration: client.<family>.create, then markSynced(id); the catch
\* of the iteration reports the record whichever of the two calls threw.
\*   r: "ok" | "NETWORK" (create failed) | "DB" (created, markSynced threw)
UploadAllPush(c) ==
    LET fr == Frame(c) IN
    /\ fr.pc = "push" /\ fr.i <= Len(fr.items)
    /\ LET item == fr.items[fr.i] IN
       \E r \in {"ok", "NETWORK", "DB"} :
           LET created == r # "NETWORK"
               chosen == r # "ok" /\ nextSrv < MaxSrv
           IN
           /\ created => nextSrv < MaxSrv
           /\ MayFail(Fault(chosen))
           /\ faults' = faults + Fault(chosen)
           /\ server' = IF created
                        THEN SrvCreate(server, fr.fam, nextSrv + 1, item.title, now)
                        ELSE server
           /\ nextSrv' = IF created THEN nextSrv + 1 ELSE nextSrv
           /\ local' = IF r = "ok" THEN MarkSynced(local, fr.fam, item.id) ELSE local
           /\ SetFrame(c, [fr EXCEPT
                 !.i = @ + 1,
                 !.uploaded = IF r = "ok" THEN @ + 1 ELSE @,
                 !.errors = IF r = "ok" THEN @
                            ELSE Append(@, ErrorEntry(fr.fam, item.id, r, FALSE))])
    /\ UNCHANGED <<conflictStore, nextConflict, metadata, state, started>>
    /\ UNCHANGED nextLocal
    /\ UNCHANGED logVars

UploadAllNext(c) ==
    LET fr == Frame(c) IN
    /\ fr.pc = "push" /\ fr.i > Len(fr.items)
    /\ SetFrame(c, IF fr.fam = "entry"
                   THEN [fr EXCEPT !.pc = "pending", !.fam = "tag", !.items = <<>>, !.i = 0]
                   ELSE [fr EXCEPT !.pc = "finishAll", !.items = <<>>, !.i = 0])
    /\ UNCHANGED <<conflictStore, nextConflict, metadata, state, started, faults>>
    /\ UNCHANGED logVars
    /\ UNCHANGED storeVars

\* sync-service.ts 1225-1235, 1248-1249
UploadAllFinish(c) ==
    LET fr == Frame(c)
        success == Len(fr.errors) = 0
    IN
    /\ fr.pc = "finishAll"
    /\ metadata' = [lastSyncAt |-> now,
                    lastSyncResult |-> IF success THEN "success" ELSE "partial",
                    pendingOperationsCount |-> 0, conflictsCount |-> 0]
    /\ state' = "idle"
    /\ SetFrame(c, DoneFrame("uploadAll", FALSE,
                              SyncResult(success, fr.uploaded, 0,
                                         Len(fr.errors), fr.errors, 0, <<>>)))
    /\ UNCHANGED <<conflictStore, nextConflict, started, faults>>
    /\ UNCHANGED logVars
    /\ UNCHANGED storeVars

\* The caller of sync() / uploadAllLocalData() takes the result.
Return(c) ==
    /\ calls[c].pc = "done"
    /\ SetFrame(c, IdleFrame)
    /\ UNCHANGED <<conflictStore, nextConflict, metadata, state, started, faults>>
    /\ UNCHANGED logVars
    /\ UNCHANGED storeVars


(***************************************************************************)
(* resolveConflict(), getConflicts(), getMetadata().                       *)
(***************************************************************************)
\* getConflicts: the stored conflicts without resolvedAt.
GetConflicts(store) == SelectSeq(store, LAMBDA x : ~x.resolved)

\* conflicts.findIndex((c) => c.id === conflictId): 0 when there is none.
FindConflict(store, id) ==
    LET hits == {i \in DOMAIN store : store[i].id = id}
    IN IF hits = {} THEN 0 ELSE CHOOSE i \in hits : \A j \in hits : i <= j

\* Mutant of getMetadata: the stored counts are returned.
GetMetadata_Stored(meta, ops, store) == meta

\* getMetadata: the stored metadata with both counts read again from the
\* log and from the Conflict Store.
GetMetadata(meta, ops, store) ==
    [meta EXCEPT !.pendingOperationsCount = GetCount(ops),
                 !.conflictsCount = Len(GetConflicts(store))]

\* A field the parsed snapshot lacks is undefined and is not set by
\* repository.update ('{}' has no field at all).
SnapshotTitle(data, current) == IF data.title = NoTitle THEN current ELSE data.title

\* downloadEntity: repository.update(entityId, fields), then
\* markSynced(entityId); either call can throw.
DownloadEntity(tbl, f, id, data, throws, t) ==
    IF throws = "before" \/ <<f, id>> \notin DOMAIN tbl THEN tbl
    ELSE LET updated == RepoUpdate(tbl, f, id, SnapshotTitle(data, tbl[<<f, id>>].title), t)
         IN IF throws = "after" THEN updated ELSE MarkSynced(updated, f, id)

\* uploadEntity: client.<family>.update with the fields of the snapshot.
UploadEntityOp(cf) ==
    [operation |-> "update", entityType |-> cf.entityType, payload |-> cf.localData]

\* How the call can go once the conflict is found: "ok", or the failure
\* of the remote call or of a local store call.
ResolveOutcomes(srv, n, cf, strategy) ==
    IF strategy = "local" THEN RemoteOutcomes(srv, n, UploadEntityOp(cf))
    ELSE IF strategy = "remote" THEN {"ok", "before", "after"}
    ELSE {"ok"}

\* Mutant of resolveConflict: resolvedAt is set, the resolution is not.
MarkResolved_NoResolution(store, idx, strategy) ==
    [store EXCEPT ![idx] = [@ EXCEPT !.resolved = TRUE]]

\* sync-service.ts 234-239: resolvedAt and resolution are set.
MarkResolved(store, idx, strategy) ==
    [store EXCEPT ![idx] = [@ EXCEPT !.resolved = TRUE, !.resolution = strategy]]

\* resolveConflict(conflictId, strategy), called for a listed conflict or
\* with an id the store does not hold.  loadConflicts answers [] when the
\* store cannot be read; saveConflicts logs a failed write and returns.
ResolveConflict(c) ==
    \E id \in 1..(nextConflict + 1), strategy \in ConflictStrategies,
       readable \in BOOLEAN, saved \in BOOLEAN :
        LET idx == IF readable THEN FindConflict(conflictStore, id) ELSE 0
            cf == conflictStore[idx]
            outcomes == IF idx = 0 THEN {"notFound"}
                        ELSE ResolveOutcomes(server, nextSrv, cf, strategy)
        IN
        /\ Quiet
        /\ conflictStore # <<>>
        /\ \E o \in outcomes :
            LET cost == Fault(~readable) + Fault(~saved)
                          + Fault(idx > 0 /\ ChosenFailure(outcomes, o))
            IN
            /\ o # "ok" => saved
            /\ MayFail(cost)
            /\ faults' = faults + cost
            /\ server' = IF idx > 0 /\ strategy = "local" /\ o = "ok"
                         THEN SrvUpdate(server, cf.entityType, cf.localData.id,
                                        cf.localData.title)
                         ELSE server
            /\ local' = IF idx > 0 /\ strategy = "remote"
                        THEN DownloadEntity(local, cf.entityType, cf.entityId,
                                            cf.remoteData, o, now)
                        ELSE local
            /\ conflictStore' = IF o = "ok" /\ saved
                                THEN MarkResolved(conflictStore, idx, strategy)
                                ELSE conflictStore
            /\ SetFrame(c, DoneFrame("resolve", o # "ok",
                                     [id |-> id, strategy |-> strategy]))
        /\ UNCHANGED <<nextConflict, metadata, state, started>>
        /\ UNCHANGED <<nextLocal, nextSrv>>
        /\ UNCHANGED logVars
Mutate == LocalCreate \/ LocalUpdate \/ LocalDelete \/ ConfirmWithServerId \/ ServerEdit

\* The steps of a sync() call that was not rejected.
PassStep(c) ==
    \/ SyncStart(c) \/ SyncGetAll(c)
    \/ SyncRemoteCall(c) \/ SyncSettle(c) \/ SyncUploadDone(c)
    \/ SyncList(c) \/ SyncItem(c) \/ SyncItemsDone(c) \/ SyncFinish(c)

UploadAllStep(c) ==
    \/ UploadAllStart(c) \/ UploadAllPending(c) \/ UploadAllPush(c)
    \/ UploadAllNext(c) \/ UploadAllFinish(c)

\* One caller at a time: edits and sync() passes alternate.
Next ==
    \/ Mutate
    \/ PassStep("c1")
    \/ ResolveConflict("c1")
    \/ Return("c1")

Spec == Init /\ [][Next]_vars

\* Two callers on the one service instance; the records were created
\* before the first call.
RaceNext ==
    \/ (started = 0 /\ nextOp < RaceOps /\ LocalCreate)
    \/ \E c \in Callers : SyncReject(c)
    \/ \E c \in Callers : PassStep(c)
    \/ \E c \in Callers : UploadAllStep(c)
    \/ \E c \in Callers : Return(c)

SpecRace == Init /\ [][RaceNext]_vars


(***************************************************************************)
(* The offline-first data service (createOfflineFirstDataService): a       *)
(* mutation commits to the local store and queues its operation, then,     *)
(* when the network answers, tries the remote call at once.  A sync()      *)
(* pass may run in between its awaits.                                     *)
(***************************************************************************)
Mutation(operation, entityType, entityId, title) ==
    [operation |-> operation, entityType |-> entityType, entityId |-> entityId,
     title |-> title]

\* The mutations a caller can ask for: create, and update or delete of a
\* record that findById returns.
Mutations ==
    {Mutation("create", f, LocalId(nextLocal + 1), title) :
        f \in (IF nextLocal < MaxLocal THEN Families ELSE {}), title \in Titles}
    \cup {Mutation("update", k[1], k[2], title) :
            k \in {x \in DOMAIN local : x[1] \in Families /\ FindById(local, x[1], x[2])},
            title \in Titles}
    \cup {Mutation("delete", k[1], k[2], NoTitle) :
            k \in {x \in DOMAIN local : x[1] \in Families /\ FindById(local, x[1], x[2])}}

\* The repository call of a mutation.
CommitLocal(tbl, n, m, t) ==
    IF m.operation = "create" THEN RepoCreate(tbl, m.entityType, n, m.title, t)
    ELSE IF m.operation = "update"
    THEN RepoUpdate(tbl, m.entityType, m.entityId, m.title, t)
    ELSE IF m.entityType = "tag" THEN RepoHardDelete(tbl, m.entityType, m.entityId)
    ELSE RepoSoftDelete(tbl, m.entityType, m.entityId)

\* What the mutation returns: the record as the repository wrote it, or
\* true for a delete.
LocalResult(tbl, m) ==
    IF m.operation = "delete" THEN TRUE ELSE tbl[<<m.entityType, m.entityId>>]

\* The request of the immediate attempt.
Request(m) ==
    [operation |-> m.operation, entityType |-> m.entityType,
     payload |-> Payload(m.entityId, m.title)]

\* pendingOperations.remove(entity id): operation ids are op_<time>_<random>
\* strings, entity ids are local_<time>_<random> or server ids; read as an
\* operation id, an entity id is the id of no operation (the log's ids
\* count from 1).
AsOpId(entityId) == 0

\* Mutant: the attempt's outcome is not looked at.
AttemptEnd_Ignored(r) == "confirm"

\* try { await client...; markSynced; remove } catch { }: where the call
\* goes after the remote answer r.
AttemptEnd(r) == IF r = "ok" THEN "confirm" ELSE "done"

\* repository write, pendingOperations.add, isNetworkAvailable().
DsCommit(c) ==
    \E m \in Mutations, online \in BOOLEAN :
        /\ calls[c].pc = "idle"
        /\ now < MaxTime /\ nextOp < MaxOps
        /\ local' = CommitLocal(local, nextLocal + 1, m, now + 1)
        /\ nextLocal' = IF m.operation = "create" THEN nextLocal + 1 ELSE nextLocal
        /\ log' = Add(log, nextOp + 1, m.entityType, m.entityId, m.operation,
                      Payload(m.entityId, m.title), now + 1)
        /\ nextOp' = nextOp + 1
        /\ now' = now + 1
        /\ SetFrame(c, [DoneFrame("mutate", FALSE, LocalResult(local', m))
                          EXCEPT !.pc = IF online THEN "attempt" ELSE "done",
                                 !.items = <<m>>,
                                 !.start = [local |-> local, server |-> server]])
        /\ UNCHANGED <<server, nextSrv>>
        /\ UNCHANGED <<conflictStore, nextConflict, metadata, state, started, faults>>

\* The remote call of the immediate attempt; its failure is swallowed.
DsAttempt(c) ==
    LET fr == Frame(c)
        m == fr.items[1]
        outcomes == RemoteOutcomes(server, nextSrv, Request(m))
    IN
    /\ fr.pc = "attempt"
    /\ \E r \in outcomes :
          /\ MayFail(Fault(ChosenFailure(outcomes, r)))
          /\ faults' = faults + Fault(ChosenFailure(outcomes, r))
          /\ server' = IF r = "ok" THEN RemoteApply(server, nextSrv, Request(m), now)
                       ELSE server
          /\ nextSrv' = IF r = "ok" /\ m.operation = "create" THEN nextSrv + 1 ELSE nextSrv
          /\ SetFrame(c, [fr EXCEPT !.pc = AttemptEnd(r), !.outcome = r])
    /\ UNCHANGED <<conflictStore, nextConflict, metadata, state, started>>
    /\ UNCHANGED <<local, nextLocal>>
    /\ UNCHANGED logVars

\* After the remote call succeeded: markSynced(id) (not after a delete),
\* then pendingOperations.remove(id); an exception of markSynced is
\* swallowed with the rest.
DsConfirm(c) ==
    LET fr == Frame(c)
        m == fr.items[1]
    IN
    /\ fr.pc = "confirm"
    /\ \E marked \in (IF m.operation = "delete" THEN {TRUE} ELSE BOOLEAN) :
          /\ MayFail(Fault(~marked))
          /\ faults' = faults + Fault(~marked)
          /\ local' = IF marked /\ m.operation # "delete"
                      THEN MarkSynced(local, m.entityType, m.entityId) ELSE local
          /\ log' = IF marked THEN Remove(log, AsOpId(m.entityId)) ELSE log
          /\ SetFrame(c, [fr EXCEPT !.pc = "done"])
    /\ UNCHANGED <<nextOp, now>>
    /\ UNCHANGED <<nextLocal, server, nextSrv>>
    /\ UNCHANGED <<conflictStore, nextConflict, metadata, state, started>>

DsStep(c) == DsCommit(c) \/ DsAttempt(c) \/ DsConfirm(c)

\* One sync() pass of caller c1 beside the mutations of caller c2.
ServiceNext ==
    \/ DsStep("c2")
    \/ (started = 0 /\ SyncStart("c1"))
    \/ SyncGetAll("c1")
    \/ SyncRemoteCall("c1") \/ SyncSettle("c1") \/ SyncUploadDone("c1")
    \/ SyncList("c1") \/ SyncItem("c1") \/ SyncItemsDone("c1") \/ SyncFinish("c1")
    \/ \E c \in Callers : Return(c)

SpecService == Init /\ [][ServiceNext]_vars

(***************************************************************************)
(* Repeated sync() passes over an entry update whose expectedVersion is    *)
(* behind the server's version.                                            *)
(***************************************************************************)
\* The strategies that resolve without the user.
AutoStrategies == {"local", "remote"}

\* The stale operation: the update of entry srv-1, queued at time 2.
StaleOp(title) ==
    Add(<<>>, 1, "entry", ServerId(1), "update", Payload(ServerId(1), title), 2)

\* A force upload re-creates the entry under a new server id, and a failed
\* write after it makes the next pass re-create it again: the environment
\* fails no more often than the server has room for.
FaultsSpent == IF MaxFaults > MaxSrv - 2 THEN MaxFaults - (MaxSrv - 2) ELSE 0

\* The entry is known under its server id on both sides; it was edited on
\* this device (pending, operation queued) and, before or after that, by
\* another client, which moved the server's version on.
InitStale ==
    \E mine \in Titles, theirs \in Titles, at \in {1, 3} :
        /\ log = StaleOp(mine)
        /\ nextOp = 1
        /\ now = 3
        /\ local = (<<"entry", ServerId(1)>> :> Row(mine, 2, "pending"))
        /\ nextLocal = 1
        /\ server = (<<"entry", ServerId(1)>> :> SrvRow(theirs, at))
        /\ nextSrv = 1
        /\ conflictStore = <<>>
        /\ nextConflict = 0
        /\ metadata = [lastSyncAt |-> -1, lastSyncResult |-> "none",
                       pendingOperationsCount |-> 0, conflictsCount |-> 0]
        /\ state = "idle"
        /\ calls = [c \in Callers |-> IdleFrame]
        /\ started = 0
        /\ faults = FaultsSpent

\* syncEntry, update: the server compares expectedVersion (payload.version,
\* fixed when the operation was queued) with the entry's version, which it
\* only ever increments; a version that is behind is refused with CONFLICT
\* on every call.
StaleRemoteCall(c) ==
    LET fr == Frame(c) IN
    /\ fr.pc = "upload" /\ fr.i <= Len(fr.ops)
    /\ SetFrame(c, [fr EXCEPT !.pc = "settle", !.outcome = ConflictError,
                              !.attempted = Append(@, fr.ops[fr.i].id)])
    /\ UNCHANGED <<conflictStore, nextConflict, metadata, state, started, faults>>
    /\ UNCHANGED logVars
    /\ UNCHANGED storeVars

\* The count of calls bounds a run of the model and is no state of the
\* program: between calls it is forgotten, so that passes repeat without
\* end.  (The fault budget is kept: the environment fails finitely often.)
Rewind ==
    /\ Quiet /\ started > 0
    /\ started' = 0
    /\ UNCHANGED <<conflictStore, nextConflict, metadata, state, calls, faults>>
    /\ UNCHANGED logVars
    /\ UNCHANGED storeVars

AutoNext ==
    \/ (SyncStart("c1") /\ calls'["c1"].strategy \in AutoStrategies)
    \/ SyncGetAll("c1")
    \/ StaleRemoteCall("c1") \/ SyncSettle("c1") \/ SyncUploadDone("c1")
    \/ SyncList("c1") \/ SyncItem("c1") \/ SyncItemsDone("c1") \/ SyncFinish("c1")
    \/ Return("c1")
    \/ Rewind

\* sync() is called again and again, and every call runs to its end.
SpecAuto == InitStale /\ [][AutoNext]_vars /\ WF_vars(AutoNext)

(***************************************************************************)
(* Two sync() passes with nothing changing in between.                     *)
(***************************************************************************)
\* A device whose account already has an entry on the server (created by
\* another client); the local store is empty.
InitFresh ==
    \E title \in Titles :
        /\ log = <<>>
        /\ nextOp = 0
        /\ now = 1
        /\ local = <<>>
        /\ nextLocal = 0
        /\ server = (<<"entry", ServerId(1)>> :> SrvRow(title, 1))
        /\ nextSrv = 1
        /\ conflictStore = <<>>
        /\ nextConflict = 0
        /\ metadata = [lastSyncAt |-> -1, lastSyncResult |-> "none",
                       pendingOperationsCount |-> 0, conflictsCount |-> 0]
        /\ state = "idle"
        /\ calls = [c \in Callers |-> IdleFrame]
        /\ started = 0
        /\ faults = 0

\* Local records are created before the first pass only.
TwiceNext ==
    \/ (started = 0 /\ LocalCreate)
    \/ PassStep("c1")
    \/ Return("c1")

SpecTwice == InitFresh /\ [][TwiceNext]_vars

(***************************************************************************)
(* The download phase over a record that both sides know under one id.     *)
(***************************************************************************)
\* One record, an entry or a tag, stored locally under its server id,
\* synced or edited since (pending, with its update queued), and on the
\* server as another client left it, before or after the local edit.
InitKnown ==
    \E f \in Families, status \in {"pending", "synced"},
       mine \in Titles, theirs \in Titles, at \in {1, 3} :
        /\ log = IF status = "pending"
                 THEN Add(<<>>, 1, f, ServerId(1), "update", Payload(ServerId(1), mine), 2)
                 ELSE <<>>
        /\ nextOp = 1
        /\ now = 3
        /\ local = (<<f, ServerId(1)>> :> Row(mine, 2, status))
        /\ nextLocal = 1
        /\ server = (<<f, ServerId(1)>> :> SrvRow(theirs, at))
        /\ nextSrv = 1
        /\ conflictStore = <<>>
        /\ nextConflict = 0
        /\ metadata = [lastSyncAt |-> -1, lastSyncResult |-> "none",
                       pendingOperationsCount |-> 0, conflictsCount |-> 0]
        /\ state = "idle"
        /\ calls = [c \in Callers |-> IdleFrame]
        /\ started = 0
        /\ faults = 0

KnownNext == PassStep("c1") \/ Return("c1")

SpecKnown == InitKnown /\ [][KnownNext]_vars
(***************************************************************************)
(* The log driven directly through its API, one call at a time.            *)
(***************************************************************************)
LogKeys == {<<"entry", LocalId(1)>>, <<"tag", LocalId(1)>>, <<"entry", LocalId(2)>>}
OpIds == 1..MaxLogOps

\* Each call here reads a later clock value than the one before it.
LogAdd ==
    \E key \in LogKeys, operation \in OperationTypes, title \in Titles :
        /\ nextOp < MaxLogOps
        /\ now < MaxTime
        /\ log' = Add(log, nextOp + 1, key[1], key[2], operation,
                      Payload(key[2], IF operation = "delete" THEN NoTitle ELSE title),
                      now + 1)
        /\ nextOp' = nextOp + 1
        /\ now' = now + 1
        /\ UNCHANGED storeVars
        /\ UNCHANGED syncVars

LogRemove ==
    \E id \in OpIds :
        /\ log' = Remove(log, id)
        /\ UNCHANGED <<nextOp, now>>
        /\ UNCHANGED storeVars
        /\ UNCHANGED syncVars

LogRemoveMany ==
    \E ids \in SUBSET OpIds :
        /\ Cardinality(ids) = 2
        /\ log' = RemoveMany(log, ids)
        /\ UNCHANGED <<nextOp, now>>
        /\ UNCHANGED storeVars
        /\ UNCHANGED syncVars

LogMarkFailed ==
    \E id \in OpIds, error \in {"NETWORK"} :
        /\ \A i \in DOMAIN log : log[i].id = id => log[i].retryCount < MaxRetry
        /\ log' = MarkFailed(log, id, error)
        /\ UNCHANGED <<nextOp, now>>
        /\ UNCHANGED storeVars
        /\ UNCHANGED syncVars

LogNext == LogAdd \/ LogRemove \/ LogRemoveMany \/ LogMarkFailed

SpecLog == Init /\ [][LogNext]_vars

(***************************************************************************)
(* C1: after any sequence of add / remove / removeMany / markFailed calls  *)
(* run one after the other, getAll() holds at most one operation for each  *)
(* (entityType, entityId) pair.                                            *)
(***************************************************************************)
AtMostOnePerEntity(ops) ==
    \A i, j \in DOMAIN ops :
        (ops[i].entityType = ops[j].entityType /\ ops[i].entityId = ops[j].entityId)
            => i = j

C1_AtMostOnePerEntity == AtMostOnePerEntity(log)

\* Two keys are queued and at least one add() was coalesced into an
\* existing operation.
C1_Witness == Len(log) = 2 /\ nextOp >= 3 /\ \E i \in DOMAIN log : log[i].retryCount > 0


(***************************************************************************)
(* The log's calls in their two halves: loadOperations() at the start,     *)
(* saveOperations() at the end, with another call free to run in between.  *)
(***************************************************************************)
\* A run has MaxCalls + 1 calls: one to fill the log and two to overlap.
MayLoad(c) == calls[c].pc = "idle" /\ started <= MaxCalls

\* A call that has loaded: its snapshot is in ops, its arguments in items.
LoadedFrame(kind, args) ==
    [IdleFrame EXCEPT !.pc = "loaded", !.kind = kind, !.ops = log, !.items = <<args>>]

\* const operations = await loadOperations(), in add(); the id and the
\* clock value of the new operation are taken here.
AddLoad(c) ==
    \E key \in LogKeys, operation \in OperationTypes, title \in Titles :
        /\ MayLoad(c)
        /\ nextOp < MaxLogOps
        /\ now < MaxTime
        /\ SetFrame(c, LoadedFrame("add",
              [id |-> nextOp + 1, entityType |-> key[1], entityId |-> key[2],
               operation |-> operation,
               payload |-> Payload(key[2], IF operation = "delete" THEN NoTitle ELSE title),
               t |-> now + 1]))
        /\ nextOp' = nextOp + 1
        /\ now' = now + 1
        /\ started' = started + 1
        /\ UNCHANGED <<conflictStore, nextConflict, metadata, state, faults>>
        /\ UNCHANGED log
        /\ UNCHANGED storeVars

\* const operations = await loadOperations(), in remove().
RemoveLoad(c) ==
    \E id \in OpIds :
        /\ MayLoad(c)
        /\ SetFrame(c, LoadedFrame("remove", [id |-> id]))
        /\ started' = started + 1
        /\ UNCHANGED <<conflictStore, nextConflict, metadata, state, faults>>
        /\ UNCHANGED logVars
        /\ UNCHANGED storeVars

\* const operations = await loadOperations(), in markFailed().
MarkFailedLoad(c) ==
    \E id \in OpIds :
        /\ MayLoad(c)
        /\ \A i \in DOMAIN log : log[i].id = id => log[i].retryCount < MaxRetry
        /\ SetFrame(c, LoadedFrame("markFailed", [id |-> id, error |-> "NETWORK"]))
        /\ started' = started + 1
        /\ UNCHANGED <<conflictStore, nextConflict, metadata, state, faults>>
        /\ UNCHANGED logVars
        /\ UNCHANGED storeVars

\* What the call makes of the array it loaded.
Modified(fr) ==
    LET a == fr.items[1]
    IN IF fr.kind = "add"
       THEN Add(fr.ops, a.id, a.entityType, a.entityId, a.operation, a.payload, a.t)
       ELSE IF fr.kind = "remove" THEN Remove(fr.ops, a.id)
       ELSE MarkFailed(fr.ops, a.id, a.error)

\* Mutant: the call works on the log as it is when it saves.
Saved_Fresh(fr, stored) == Modified([fr EXCEPT !.ops = stored])

\* What storage holds after the call: the array it modified; markFailed
\* does not save when it found no operation.
Saved(fr, stored) ==
    IF fr.kind = "markFailed" /\ FindIndexById(fr.ops, fr.items[1].id) = 0
    THEN stored
    ELSE Modified(fr)

\* await saveOperations(operations); return.
SaveOperations(c) ==
    /\ calls[c].pc = "loaded"
    /\ log' = Saved(calls[c], log)
    /\ SetFrame(c, [calls[c] EXCEPT !.pc = "done"])
    /\ UNCHANGED <<conflictStore, nextConflict, metadata, state, started, faults>>
    /\ UNCHANGED <<nextOp, now>>
    /\ UNCHANGED storeVars

OverlapNext ==
    \E c \in Callers :
        AddLoad(c) \/ RemoveLoad(c) \/ MarkFailedLoad(c) \/ SaveOperations(c) \/ Return(c)

SpecOverlap == Init /\ [][OverlapNext]_vars

(***************************************************************************)
(* One caller of pendingOperations.add at a time: the call's frame keeps   *)
(* its arguments, the stored log as loadOperations() returned it, and the  *)
(* operation the call returns.                                             *)
(***************************************************************************)
\* What add() returns: newOp as it stands at the return statement taken.
AddReturn(ops, id, entityType, entityId, operation, payload, t) ==
    LET existingIndex == FindIndex(ops, entityType, entityId)
        newOp == NewOp(id, entityType, entityId, operation, payload, t)
    IN IF existingIndex > 0 /\ ops[existingIndex].operation = "create"
                            /\ operation = "update"
       THEN [newOp EXCEPT !.operation = "create",
                          !.id = ops[existingIndex].id,
                          !.createdAt = ops[existingIndex].createdAt]
       ELSE IF existingIndex > 0 /\ ops[existingIndex].operation = "update"
                                 /\ operation = "delete"
       THEN [newOp EXCEPT !.operation = "delete"]
       ELSE newOp

AddArgs(entityType, entityId, operation, payload) ==
    [entityType |-> entityType, entityId |-> entityId,
     operation |-> operation, payload |-> payload]

AddCall(c) ==
    \E key \in LogKeys, operation \in OperationTypes, title \in Titles :
        LET payload == Payload(key[2], IF operation = "delete" THEN NoTitle ELSE title)
        IN
        /\ calls[c].pc = "idle"
        /\ nextOp < MaxLogOps
        /\ now < MaxTime
        /\ log' = Add(log, nextOp + 1, key[1], key[2], operation, payload, now + 1)
        /\ SetFrame(c, [DoneFrame("add", FALSE,
                                  AddReturn(log, nextOp + 1, key[1], key[2],
                                            operation, payload, now + 1))
                          EXCEPT !.ops = log,
                                 !.items = <<AddArgs(key[1], key[2], operation, payload)>>])
        /\ nextOp' = nextOp + 1
        /\ now' = now + 1
        /\ UNCHANGED <<conflictStore, nextConflict, metadata, state, started, faults>>
        /\ UNCHANGED storeVars

\* Between two add() calls the upload may remove an operation or mark it
\* failed.
AddNext ==
    \/ AddCall("c1")
    \/ Return("c1")
    \/ (Quiet /\ LogRemove)
    \/ (Quiet /\ LogMarkFailed)

SpecAdd == Init /\ [][AddNext]_vars

(***************************************************************************)
(* Local-only use followed by uploadAllLocalData(): records, and tags      *)
(* attached to entries, are created offline; then the bulk upload runs.    *)
(***************************************************************************)
\* `${entryId}_${tagId}`: the key of the queued entryTag operation.
LinkId(entryId, tagId) == <<"link", entryId[2] * (MaxLocal + MaxLinks + 1) + tagId[2]>>

\* The entry_tags row for a pair, if any.
HasLink(tbl, entryId, tagId) ==
    \E k \in DOMAIN tbl : k[1] = "entryTag" /\ tbl[k].title = LinkId(entryId, tagId)

\* tags.addToEntry with the device offline: tagsRepository.addTagToEntry
\* inserts an entry_tags row (syncStatus pending) unless the pair is
\* there, then pendingOperations.add('entryTag', ...).
LocalAddTagToEntry ==
    \E e \in DOMAIN local, t \in DOMAIN local :
        /\ Quiet
        /\ e[1] = "entry" /\ t[1] = "tag"
        /\ FindById(local, "entry", e[2]) /\ FindById(local, "tag", t[2])
        /\ now < MaxTime /\ nextOp < MaxOps + MaxLinks
        /\ nextLocal < MaxLocal + MaxLinks
        /\ local' = IF HasLink(local, e[2], t[2]) THEN local
                    ELSE (<<"entryTag", LocalId(nextLocal + 1)>>
                             :> Row(LinkId(e[2], t[2]), now + 1, "pending")) @@ local
        /\ nextLocal' = IF HasLink(local, e[2], t[2]) THEN nextLocal ELSE nextLocal + 1
        /\ log' = Add(log, nextOp + 1, "entryTag", LinkId(e[2], t[2]), "create",
                      Payload(LinkId(e[2], t[2]), NoTitle), now + 1)
        /\ nextOp' = nextOp + 1
        /\ now' = now + 1
        /\ UNCHANGED <<server, nextSrv>>
        /\ UNCHANGED syncVars

BulkNext ==
    \/ LocalCreate \/ LocalUpdate \/ LocalDelete
    \/ LocalAddTagToEntry
    \/ UploadAllStep("c1")
    \/ Return("c1")

SpecBulk == Init /\ [][BulkNext]_vars

(***************************************************************************)
(* One caller using the whole control surface: edits, sync(),              *)
(* uploadAllLocalData() and resolveConflict() one after the other.         *)
(***************************************************************************)
SurfaceNext ==
    \/ Next
    \/ UploadAllStep("c1")

SpecSurface == Init /\ [][SurfaceNext]_vars

(***************************************************************************)
(* Direct use of the repositories' delete(id): the call's frame keeps the  *)
(* id, the store as the call found it, and the boolean returned.           *)
(***************************************************************************)
\* result.changes > 0: the UPDATE's WHERE clause is id = ? alone.
RepoDeleteResult(tbl, f, id) == <<f, id>> \in DOMAIN tbl

\* EntriesRepository.delete / SourcesRepository.delete on any id.
RepositoryDelete(c) ==
    \E n \in 1..MaxLocal :
        /\ calls[c].pc = "idle"
        /\ local' = RepoSoftDelete(local, "entry", LocalId(n))
        /\ SetFrame(c, [DoneFrame("delete", FALSE,
                                  RepoDeleteResult(local, "entry", LocalId(n)))
                          EXCEPT !.items = <<LocalId(n)>>,
                                 !.start = [local |-> local, server |-> server]])
        /\ UNCHANGED <<nextLocal, server, nextSrv>>
        /\ UNCHANGED <<conflictStore, nextConflict, metadata, state, started, faults>>
        /\ UNCHANGED logVars

RepoNext ==
    \/ LocalCreate \/ LocalUpdate
    \/ RepositoryDelete("c1")
    \/ Return("c1")

SpecRepo == Init /\ [][RepoNext]_vars

(***************************************************************************)
(* Spaced-repetition review (ReviewRepository).  The ease factor, a        *)
(* double in the code, is kept in hundredths; the clock counts ticks, Day  *)
(* of them to a calendar day.                                              *)
(***************************************************************************)
\* SM2_DEFAULTS
InitialEase == 250
MinEase == 130
MaxEase == 300
AgainInterval == 1
AgainEaseDelta == -20
HardEaseDelta == -15
EasyEaseDelta == 10

ReviewRatings == {"again", "hard", "good", "easy"}
SnoozePresets == {1, 3}
Day == 16
NoTime == -1

\* Math.max / Math.min
MathMax(a, b) == IF a >= b THEN a ELSE b
MathMin(a, b) == IF a <= b THEN a ELSE b

\* Mutant of Math.round: the fraction is dropped.
MathRound_Floor(num, den) == num \div den

\* Math.round(num / den) for num >= 0: a half rounds up.
MathRound(num, den) == (2 * num + den) \div (2 * den)

\* currentState?.x ?? default, for a null currentState.
NullState == [intervalDays |-> 0, ease |-> InitialEase, reps |-> 0, lapses |-> 0]

\* Mutant of calculateNextState: the ease is not clamped.
CalculateNextState_NoClamp(cur, rating) ==
    LET baseInterval == cur.intervalDays
    IN IF rating = "again"
       THEN [intervalDays |-> AgainInterval, ease |-> cur.ease + AgainEaseDelta,
             reps |-> 0, lapses |-> cur.lapses + 1]
       ELSE IF rating = "hard"
       THEN [intervalDays |-> MathMax(1, MathRound(baseInterval * 12, 10)),
             ease |-> cur.ease + HardEaseDelta,
             reps |-> cur.reps + 1, lapses |-> cur.lapses]
       ELSE IF rating = "easy"
       THEN [intervalDays |-> IF baseInterval = 0 THEN 2
                              ELSE MathMax(1, MathRound(baseInterval * cur.ease * 13, 1000)),
             ease |-> cur.ease + EasyEaseDelta,
             reps |-> cur.reps + 1, lapses |-> cur.lapses]
       ELSE [intervalDays |-> IF baseInterval = 0 THEN 1
                              ELSE MathMax(1, MathRound(baseInterval * cur.ease, 100)),
             ease |-> cur.ease,
             reps |-> cur.reps + 1, lapses |-> cur.lapses]

\* calculateNextState: hardMultiplier 1.2 = 12/10, easyMultiplier 1.3 =
\* 13/10; 'good' is also the switch's default branch.
CalculateNextState(cur, rating) ==
    LET baseInterval == cur.intervalDays
    IN IF rating = "again"
       THEN [intervalDays |-> AgainInterval,
             ease |-> MathMax(MinEase, cur.ease + AgainEaseDelta),
             reps |-> 0, lapses |-> cur.lapses + 1]
       ELSE IF rating = "hard"
       THEN [intervalDays |-> MathMax(1, MathRound(baseInterval * 12, 10)),
             ease |-> MathMax(MinEase, cur.ease + HardEaseDelta),
             reps |-> cur.reps + 1, lapses |-> cur.lapses]
       ELSE IF rating = "easy"
       THEN [intervalDays |-> IF baseInterval = 0 THEN 2
                              ELSE MathMax(1, MathRound(baseInterval * cur.ease * 13, 1000)),
             ease |-> MathMin(MaxEase, cur.ease + EasyEaseDelta),
             reps |-> cur.reps + 1, lapses |-> cur.lapses]
       ELSE [intervalDays |-> IF baseInterval = 0 THEN 1
                              ELSE MathMax(1, MathRound(baseInterval * cur.ease, 100)),
             ease |-> cur.ease,
             reps |-> cur.reps + 1, lapses |-> cur.lapses]

\* dueAt.setDate(dueAt.getDate() + n)
AddDays(t, n) == t + n * Day

StateKey(entryId) == <<"reviewState", entryId>>
EventKey(n) == <<"reviewEvent", LocalId(n)>>

\* getState: the entry's entry_review_state row, if any.
HasState(tbl, entryId) == StateKey(entryId) \in DOMAIN tbl

CurrentState(tbl, entryId) ==
    IF HasState(tbl, entryId)
    THEN [f \in DOMAIN NullState |-> tbl[StateKey(entryId)][f]]
    ELSE NullState

ReviewStateRow(next, dueAt, lastReviewedAt, createdAt, t) ==
    [dueAt |-> dueAt, lastReviewedAt |-> lastReviewedAt,
     intervalDays |-> next.intervalDays, ease |-> next.ease,
     reps |-> next.reps, lapses |-> next.lapses,
     createdAt |-> createdAt, updatedAt |-> t, syncStatus |-> "pending"]

ReviewEventRow(entryId, rating, dueAt, t) ==
    [entryId |-> entryId, rating |-> rating, scheduledDueAt |-> dueAt,
     reviewedAt |-> t, createdAt |-> t, syncStatus |-> "pending"]

\* markReviewed, the upsert of the review state.
UpsertReviewed(tbl, entryId, rating, t) ==
    LET next == CalculateNextState(CurrentState(tbl, entryId), rating)
        dueAt == AddDays(t, next.intervalDays)
    IN IF HasState(tbl, entryId)
       THEN [tbl EXCEPT ![StateKey(entryId)] =
                ReviewStateRow(next, dueAt, t, @.createdAt, t)]
       ELSE (StateKey(entryId) :> ReviewStateRow(next, dueAt, t, t, t)) @@ tbl

\* markReviewed: the due date, computed once from the state found.
NextDueAt(tbl, entryId, rating, t) ==
    AddDays(t, CalculateNextState(CurrentState(tbl, entryId), rating).intervalDays)

\* markReviewed, the insert of the review event.
InsertEvent(tbl, n, entryId, rating, dueAt, t) ==
    (EventKey(n) :> ReviewEventRow(entryId, rating, dueAt, t)) @@ tbl

\* Mutant of markReviewed: the state is written, no event is.
MarkReviewed_NoEvent(tbl, n, entryId, rating, throws, t) ==
    IF throws = "before" THEN tbl ELSE UpsertReviewed(tbl, entryId, rating, t)

\* The local store after a markReviewed whose writes fail as `throws` says:
\* no (none fails), before (the upsert fails), after (the insert fails).
MarkReviewed(tbl, n, entryId, rating, throws, t) ==
    IF throws = "before" THEN tbl
    ELSE IF throws = "after" THEN UpsertReviewed(tbl, entryId, rating, t)
    ELSE InsertEvent(UpsertReviewed(tbl, entryId, rating, t), n, entryId, rating,
                     NextDueAt(tbl, entryId, rating, t), t)

\* The local store after snooze(userId, entryId, days).
Snooze(tbl, entryId, days, t) ==
    IF HasState(tbl, entryId)
    THEN [tbl EXCEPT ![StateKey(entryId)] =
             [@ EXCEPT !.dueAt = AddDays(t, days), !.updatedAt = t,
                       !.syncStatus = "pending"]]
    ELSE (StateKey(entryId) :> ReviewStateRow(NullState, AddDays(t, days), NoTime, t, t))
             @@ tbl

ReviewArgs(entryId, rating) == [entryId |-> entryId, rating |-> rating]

\* reviewRepository.markReviewed on a live entry.
MarkReviewedCall(c) ==
    \E k \in DOMAIN local, rating \in ReviewRatings, throws \in {"no", "before", "after"} :
        /\ calls[c].pc = "idle"
        /\ k[1] = "entry" /\ FindById(local, "entry", k[2])
        /\ now < MaxReviews + 1
        /\ MayFail(Fault(throws # "no"))
        /\ faults' = faults + Fault(throws # "no")
        /\ local' = MarkReviewed(local, nextLocal + 1, k[2], rating, throws, now + 1)
        /\ nextLocal' = IF throws = "before" THEN nextLocal ELSE nextLocal + 1
        /\ now' = now + 1
        /\ SetFrame(c, [DoneFrame("markReviewed", throws # "no",
                                  IF throws = "no" THEN local'[StateKey(k[2])]
                                  ELSE NullState)
                          EXCEPT !.items = <<ReviewArgs(k[2], rating)>>,
                                 !.start = [local |-> local, server |-> server]])
        /\ UNCHANGED <<log, nextOp, server, nextSrv>>
        /\ UNCHANGED <<conflictStore, nextConflict, metadata, state, started>>

\* reviewRepository.snooze on a live entry.
SnoozeCall(c) ==
    \E k \in DOMAIN local, days \in SnoozePresets :
        /\ calls[c].pc = "idle"
        /\ k[1] = "entry" /\ FindById(local, "entry", k[2])
        /\ now < MaxReviews + 1
        /\ local' = Snooze(local, k[2], days, now + 1)
        /\ now' = now + 1
        /\ SetFrame(c, [DoneFrame("snooze", FALSE, local'[StateKey(k[2])])
                          EXCEPT !.items = <<ReviewArgs(k[2], "none")>>,
                                 !.start = [local |-> local, server |-> server]])
        /\ UNCHANGED <<log, nextOp, nextLocal, server, nextSrv>>
        /\ UNCHANGED <<conflictStore, nextConflict, metadata, state, started, faults>>

\* One entry is created, then reviewed and snoozed again and again.
ReviewNext ==
    \/ (nextLocal = 0 /\ LocalCreate)
    \/ MarkReviewedCall("c1")
    \/ SnoozeCall("c1")
    \/ Return("c1")

SpecReview == Init /\ [][ReviewNext]_vars

(***************************************************************************)
(* The scheduling step on its own: one entry whose review state, if it has *)
(* one, is drawn from the values the columns can hold.                     *)
(***************************************************************************)
EaseValues == {MinEase + 5 * i : i \in 0..((MaxEase - MinEase) \div 5)}

StoredStates ==
    [intervalDays : 0..MaxInterval, ease : EaseValues,
     reps : 0..MaxReps, lapses : 0..MaxReps]

InitSchedule ==
    /\ log = Add(<<>>, 1, "entry", LocalId(1), "create", Payload(LocalId(1), "a"), 1)
    /\ nextOp = 1
    /\ now = 1
    /\ \E given \in StoredStates \cup {NullState} :
          local = IF given = NullState
                  THEN RepoCreate(<<>>, "entry", 1, "a", 1)
                  ELSE (StateKey(LocalId(1))
                           :> ReviewStateRow(given, AddDays(1, given.intervalDays), 1, 1, 1))
                       @@ RepoCreate(<<>>, "entry", 1, "a", 1)
    /\ nextLocal = 1
    /\ server = <<>>
    /\ nextSrv = 0
    /\ conflictStore = <<>>
    /\ nextConflict = 0
    /\ metadata = [lastSyncAt |-> -1, lastSyncResult |-> "none",
                   pendingOperationsCount |-> 0, conflictsCount |-> 0]
    /\ state = "idle"
    /\ calls = [c \in Callers |-> IdleFrame]
    /\ started = 0
    /\ faults = 0

ScheduleNext ==
    \/ (nextLocal = 1 /\ MarkReviewedCall("c1"))
    \/ Return("c1")

SpecSchedule == InitSchedule /\ [][ScheduleNext]_vars

(***************************************************************************)
(* The review streak (getTodayStats -> calculateStreak) over a review      *)
(* history of several days.                                                *)
(***************************************************************************)
\* .limit(100) of calculateStreak's query
StreakLimit == 100

\* The calendar day of a timestamp (the date string the code compares).
DayOf(t) == t \div Day

\* ORDER BY reviewed_at DESC LIMIT 100, as far as the days of the rows
\* returned go: a row is cut off when StreakLimit rows are newer.
StreakEvents(tbl) ==
    LET events == {k \in DOMAIN tbl : k[1] = "reviewEvent"}
    IN {k \in events :
           Cardinality({j \in events : tbl[j].reviewedAt > tbl[k].reviewedAt})
               < StreakLimit}

\* The loop over sortedDates: one more day while checkDate is a review day.
RECURSIVE CountBack(_, _, _)
CountBack(dates, checkDate, rounds) ==
    IF rounds = 0 \/ checkDate \notin dates THEN 0
    ELSE 1 + CountBack(dates, checkDate - 1, rounds - 1)

\* calculateStreak, for the clock reading t.
CalculateStreak(tbl, t) ==
    LET uniqueDates == {DayOf(tbl[k].reviewedAt) : k \in StreakEvents(tbl)}
        today == DayOf(t)
        yesterday == today - 1
    IN IF uniqueDates = {} THEN 0
       ELSE IF today \notin uniqueDates /\ yesterday \notin uniqueDates THEN 0
       ELSE CountBack(uniqueDates,
                      IF today \in uniqueDates THEN today ELSE yesterday,
                      Cardinality(uniqueDates))

\* reviewedToday of getTodayStats
ReviewedToday(tbl, t) ==
    Cardinality({k \in DOMAIN tbl : k[1] = "reviewEvent"
                                    /\ DayOf(tbl[k].reviewedAt) = DayOf(t)})

\* reviewRepository.getTodayStats
StatsCall(c) ==
    /\ calls[c].pc = "idle"
    /\ SetFrame(c, DoneFrame("getTodayStats", FALSE,
                             [streak |-> CalculateStreak(local, now),
                              reviewedToday |-> ReviewedToday(local, now)]))
    /\ UNCHANGED <<conflictStore, nextConflict, metadata, state, started, faults>>
    /\ UNCHANGED logVars
    /\ UNCHANGED storeVars

\* Midnight passes.
DayPasses ==
    /\ Quiet
    /\ DayOf(now) <= MaxStreakDays
    /\ now' = now + Day
    /\ UNCHANGED <<log, nextOp>>
    /\ UNCHANGED storeVars
    /\ UNCHANGED syncVars

\* Reviews per day in a history: none, one, or a full day's work.
DayCounts == {0, 1, StreakLimit}

\* The review_events rows of a history: count[d] good ratings on day d.
History(count) ==
    [k \in UNION {{EventKey(1 + d * StreakLimit + j) : j \in 1..count[d]}
                     : d \in DOMAIN count}
        |-> LET d == (k[2][2] - 2) \div StreakLimit
            IN ReviewEventRow(LocalId(1), "good", AddDays(d * Day, 1), d * Day)]

\* One entry, reviewed over the days 0..MaxStreakDays; it is the morning of
\* the last of them.
InitStreak ==
    /\ log = Add(<<>>, 1, "entry", LocalId(1), "create", Payload(LocalId(1), "a"), 1)
    /\ nextOp = 1
    /\ now = MaxStreakDays * Day + 1
    /\ \E count \in [0..MaxStreakDays -> DayCounts] :
          local = History(count) @@ RepoCreate(<<>>, "entry", 1, "a", 0)
    /\ nextLocal = 1 + (MaxStreakDays + 1) * StreakLimit
    /\ server = <<>>
    /\ nextSrv = 0
    /\ conflictStore = <<>>
    /\ nextConflict = 0
    /\ metadata = [lastSyncAt |-> -1, lastSyncResult |-> "none",
                   pendingOperationsCount |-> 0, conflictsCount |-> 0]
    /\ state = "idle"
    /\ calls = [c \in Callers |-> IdleFrame]
    /\ started = 0
    /\ faults = 0

StreakNext ==
    \/ StatsCall("c1")
    \/ DayPasses
    \/ Return("c1")

SpecStreak == InitStreak /\ [][StreakNext]_vars

(***************************************************************************)
(* sync() over a log that holds operations of records and of join rows:    *)
(* entries and tags are created and attached offline, then passes run.     *)
(***************************************************************************)
TypesNext ==
    \/ LocalCreate
    \/ LocalAddTagToEntry
    \/ PassStep("c1")
    \/ Return("c1")

SpecTypes == Init /\ [][TypesNext]_vars
(***************************************************************************)
(* Properties of sync().                                                   *)
(***************************************************************************)
\* The call of caller c returns in this step.
Returns(c) == calls[c].pc \notin {"idle", "done"} /\ calls'[c].pc = "done"

\* The pass of caller c is inside its upload or download phase.
InPhase(c) ==
    calls[c].pc \in {"getAll", "upload", "settle", "list", "item", "pending", "push"}

RestStates == {"idle", "conflict", "error"}

\* C2: sync() invoked while the state is syncing returns at once with
\* success=false, uploadedCount=0, downloadedCount=0 and a non-empty
\* errors[], and leaves the log, the Conflict Store, SyncMetadata and the
\* published state (syncing) as they were.
C2_RejectedWhileSyncing ==
    [][\A c \in Callers :
          (/\ calls[c].pc = "idle" /\ calls'[c].pc # "idle"
           /\ calls'[c].kind \in {"sync", "rejected"}
           /\ state = "syncing")
          => /\ calls'[c].pc = "done" /\ calls'[c].kind = "rejected"
             /\ ~calls'[c].ret[1].success
             /\ calls'[c].ret[1].uploadedCount = 0
             /\ calls'[c].ret[1].downloadedCount = 0
             /\ Len(calls'[c].ret[1].errors) > 0
             /\ log' = log /\ conflictStore' = conflictStore
             /\ metadata' = metadata /\ state' = "syncing"
             /\ local' = local /\ server' = server]_vars

\* A sync() was rejected while another caller's pass is running and the
\* log holds an operation.
C2_Witness ==
    \E c, d \in Callers :
        /\ calls[c].pc = "done" /\ calls[c].kind = "rejected"
        /\ calls[d].kind = "sync" /\ InPhase(d)
        /\ state = "syncing" /\ Len(log) > 0

\* C3: no two passes are in their upload or download phases at the same
\* time, whatever the interleaving of sync() and uploadAllLocalData().
C3_AtMostOnePass == Cardinality({c \in Callers : InPhase(c)}) <= 1

\* C4: the published state moves only {idle, conflict, error} -> syncing ->
\* {idle, conflict, error}; a sync() that is not rejected sets syncing; when
\* it returns the state is conflict, idle or error by its outcome; the
\* state is never syncing when no pass is in flight.
C4_StateTransitions ==
    [][/\ state' # state =>
            \/ state \in RestStates /\ state' = "syncing"
            \/ state = "syncing" /\ state' \in RestStates
       /\ \A c \in Callers :
            /\ (calls[c].pc = "idle" /\ calls'[c].pc = "getAll") => state' = "syncing"
            /\ (Returns(c) /\ calls'[c].kind = "sync") =>
                   state' = IF calls'[c].fatal THEN "error"
                            ELSE IF calls'[c].ret[1].conflictCount > 0 THEN "conflict"
                            ELSE "idle"
       /\ state' = "syncing" => \E c \in Callers : calls'[c].pc \notin {"idle", "done"}]_vars

\* C5: round trip. When sync() uploads the create operation of a local
\* entry, the local record is marked synced; the download phase that
\* follows adds no second local record for a record this client uploaded.
C5_RoundTrip ==
    [][\A c \in Callers :
          /\ (/\ calls[c].pc = "settle" /\ calls'[c].pc = "upload"
              /\ calls'[c].uploaded = calls[c].uploaded + 1
              /\ calls[c].ops[calls[c].i].operation = "create"
              /\ calls[c].ops[calls[c].i].entityType = "entry"
              /\ <<"entry", calls[c].ops[calls[c].i].entityId>> \in DOMAIN local)
             => local'[<<"entry", calls[c].ops[calls[c].i].entityId>>].syncStatus = "synced"
          /\ (calls[c].pc = "item" /\ calls[c].fam = "entry") => nextLocal' = nextLocal]_vars

\* The claim's precondition on the stores as a pass found them: a live
\* pending local entry and a live server entry of the same id, edited
\* later, with another title.
C6_Pre(start, k) ==
    /\ k[1] = "entry"
    /\ ~start.local[k].deleted /\ start.local[k].syncStatus = "pending"
    /\ k \in DOMAIN start.server /\ ~start.server[k].deleted
    /\ start.server[k].updatedAt > start.local[k].updatedAt
    /\ start.server[k].title # start.local[k].title

C6_ConflictsFor(fr, k) ==
    SelectSeq(fr.conflicts, LAMBDA x : x.entityType = "entry" /\ x.entityId = k[2])

NoDuplicates(s) == \A i, j \in DOMAIN s : s[i] = s[j] => i = j

\* C7: when the remote call of an operation fails with a non-conflict
\* error (and the log can be written), the operation stays in the log with
\* retryCount one higher and lastError recorded, every other operation is
\* untouched, an entry for it joins errors[], and the loop moves on: no
\* operation is attempted twice in a pass.
C7_FailedStaysQueued ==
    [][\A c \in Callers :
          /\ (/\ calls[c].pc = "settle" /\ calls[c].outcome \in PlainErrors
              /\ calls'[c].pc # "done")
             => LET op == calls[c].ops[calls[c].i]
                    idx == FindIndexById(log, op.id)
                IN /\ idx > 0
                   /\ Len(log') = Len(log)
                   /\ log'[idx] = [log[idx] EXCEPT !.retryCount = @ + 1,
                                                   !.lastError = calls[c].outcome]
                   /\ \A j \in DOMAIN log : j # idx => log'[j] = log[j]
                   /\ calls'[c].errors =
                          Append(calls[c].errors,
                                 ErrorEntry(op.entityType, op.entityId,
                                            calls[c].outcome, FALSE))
                   /\ calls'[c].pc = "upload" /\ calls'[c].i = calls[c].i + 1
          /\ NoDuplicates(calls'[c].attempted)]_vars

\* An operation that already failed in an earlier pass has failed again
\* and is still queued.
C7_Witness ==
    /\ calls["c1"].pc = "upload" /\ Len(calls["c1"].errors) > 0
    /\ \E i \in DOMAIN log : log[i].retryCount = 2 /\ log[i].lastError = "NETWORK"

\* C8: a pass that reaches its end has attempted every operation it read
\* and, unless a list call failed, reconciled every live server record;
\* the failures are in the result's errors[]; a failed item or operation
\* moves the loop to the next one.
C8_FailureDoesNotAbort ==
    [][\A c \in Callers :
          /\ (calls[c].pc = "finish" /\ calls'[c].pc = "done")
             => /\ calls[c].attempted = [n \in DOMAIN calls[c].ops |-> calls[c].ops[n].id]
                /\ (\A n \in DOMAIN calls[c].errors : calls[c].errors[n].entityId # NoId)
                      => calls[c].seen = {k \in DOMAIN server : ~server[k].deleted}
                /\ calls'[c].ret[1].errors = calls[c].errors
          /\ (/\ calls[c].pc = "item" /\ calls[c].kind = "sync"
              /\ calls[c].i <= Len(calls[c].items) /\ calls'[c] # calls[c])
             => calls'[c].pc = "item" /\ calls'[c].i = calls[c].i + 1
          /\ (calls[c].pc = "settle" /\ Len(calls'[c].errors) > Len(calls[c].errors))
             => calls'[c].pc = "upload" /\ calls'[c].i = calls[c].i + 1]_vars

\* A pass is at its end after its first operation failed and its second
\* one was uploaded.
C8_Witness ==
    /\ calls["c1"].pc = "finish" /\ Len(calls["c1"].ops) = 2
    /\ Len(calls["c1"].attempted) = 2
    /\ Len(calls["c1"].errors) > 0
    /\ calls["c1"].errors[1].entityId = calls["c1"].ops[1].entityId
    /\ calls["c1"].uploaded = 1

\* C9: when an exception escapes (a write of the log fails while an
\* operation is being marked failed), the remaining phases are not run, the
\* state becomes error and the result has success=false and the one
\* synthetic entry; a sync() that ends otherwise never ends in error.
C9_FatalPath ==
    [][\A c \in Callers :
          (Returns(c) /\ calls'[c].kind = "sync")
          => IF calls'[c].fatal
             THEN /\ calls[c].pc = "settle"
                  /\ state' = "error"
                  /\ ~calls'[c].ret[1].success
                  /\ calls'[c].ret[1].errors = <<SyntheticError(StorageError)>>
                  /\ calls'[c].ret[1].errorCount = 1
                  /\ calls'[c].ret[1].downloadedCount = 0
                  /\ metadata' = metadata /\ conflictStore' = conflictStore
                  /\ local' = local /\ log' = log
             ELSE /\ calls[c].pc = "finish"
                  /\ state' # "error"]_vars

\* A pass ended on the fatal path with operations still queued.
C9_Witness ==
    /\ calls["c1"].pc = "done" /\ calls["c1"].fatal
    /\ state = "error" /\ Len(log) > 0

ConsistentResult(r) ==
    /\ r.conflictCount = Len(r.conflicts)
    /\ r.errorCount = Len(r.errors)
    /\ r.success <=> r.errorCount = 0

\* C10: every SyncResult sync() returns has conflictCount = |conflicts|,
\* errorCount = |errors| and success iff errorCount = 0, on the normal,
\* the rejected and the fatal path.
C10_ResultCounts ==
    \A c \in Callers :
        (calls[c].pc = "done" /\ calls[c].kind \in {"sync", "rejected"})
            => ConsistentResult(calls[c].ret[1])

\* One caller holds a rejected result while the other holds the result of
\* a pass that ran to its end with errors.
C10_Witness ==
    \E c, d \in Callers :
        /\ calls[c].pc = "done" /\ calls[c].kind = "rejected"
        /\ calls[d].pc = "done" /\ calls[d].kind = "sync" /\ ~calls[d].fatal
        /\ calls[d].ret[1].errorCount > 0

(***************************************************************************)
(* Properties of pendingOperations.add (the merge table).                  *)
(***************************************************************************)
\* An add() call of caller c has just returned.
AddDone(c) == calls[c].pc = "done" /\ calls[c].kind = "add"

\* The operations of a log for one (entityType, entityId).
EntriesFor(ops, entityType, entityId) ==
    SelectSeq(ops, LAMBDA op : op.entityType = entityType /\ op.entityId = entityId)

\* The operations of a log for every other key.
EntriesNotFor(ops, entityType, entityId) ==
    SelectSeq(ops, LAMBDA op : ~(op.entityType = entityType /\ op.entityId = entityId))

\* The call found an operation of kind `found` for its key and was asked
\* to add one of kind `incoming`.
AddPair(c, found, incoming) ==
    LET a == calls[c].items[1]
        before == calls[c].ops
        idx == FindIndex(before, a.entityType, a.entityId)
    IN /\ AddDone(c)
       /\ a.operation = incoming
       /\ idx > 0
       /\ before[idx].operation = found

\* C11: add(type, id, delete, ...) when the log holds a create operation
\* for (type, id) removes that operation and appends nothing: the log then
\* has zero entries for the key and every other entry is unchanged.
C11_CreateThenDelete ==
    \A c \in Callers :
        AddPair(c, "create", "delete") =>
            LET a == calls[c].items[1] IN
            /\ Len(EntriesFor(log, a.entityType, a.entityId)) = 0
            /\ log = EntriesNotFor(calls[c].ops, a.entityType, a.entityId)

\* A delete was added for a key whose create was queued next to an
\* operation of another key; only the other operation is left.
C11_Witness ==
    /\ AddPair("c1", "create", "delete")
    /\ Len(calls["c1"].ops) = 2
    /\ Len(log) = 1

\* C12: add(type, id, update, p) when the log holds a create operation for
\* (type, id) leaves exactly one operation for the key: still a create,
\* with the id and createdAt of the operation found and with payload p;
\* further updates collapse the same way.
C12_CreateThenUpdate ==
    \A c \in Callers :
        AddPair(c, "create", "update") =>
            LET a == calls[c].items[1]
                before == calls[c].ops
                found == before[FindIndex(before, a.entityType, a.entityId)]
                mine == EntriesFor(log, a.entityType, a.entityId)
            IN /\ Len(mine) = 1
               /\ mine[1].operation = "create"
               /\ mine[1].id = found.id
               /\ mine[1].createdAt = found.createdAt
               /\ mine[1].payload = a.payload
               /\ EntriesNotFor(log, a.entityType, a.entityId)
                      = EntriesNotFor(before, a.entityType, a.entityId)

\* The third add() of a run was an update with another title for the key
\* of the first create: the one operation queued is still that create,
\* with the new title.
C12_Witness ==
    /\ AddPair("c1", "create", "update")
    /\ nextOp = 3
    /\ Len(calls["c1"].ops) = 1
    /\ calls["c1"].ops[1].id = 1
    /\ calls["c1"].ops[1].payload.title # calls["c1"].items[1].payload.title
    /\ Len(log) = 1 /\ log[1].id = 1 /\ log[1].createdAt = 1
    /\ log[1].operation = "create"
    /\ log[1].payload = calls["c1"].items[1].payload

LastWriteWinsPairs ==
    {<<"update", "update">>, <<"delete", "delete">>, <<"create", "create">>}

\* C13: for the remaining pairs of the merge table add() leaves exactly one
\* operation for the key, carrying the incoming payload: update then delete
\* becomes a delete; update then update, delete then delete and create
\* then create are replaced by the incoming operation.
C13_RemainingPairs ==
    \A c \in Callers :
        \A pair \in LastWriteWinsPairs \cup {<<"update", "delete">>} :
            AddPair(c, pair[1], pair[2]) =>
                LET a == calls[c].items[1]
                    mine == EntriesFor(log, a.entityType, a.entityId)
                IN /\ Len(mine) = 1
                   /\ mine[1].payload = a.payload
                   /\ mine[1].operation = pair[2]
                   /\ pair \in LastWriteWinsPairs =>
                          mine[1] = NewOp(nextOp, a.entityType, a.entityId,
                                          a.operation, a.payload, now)
                   /\ EntriesNotFor(log, a.entityType, a.entityId)
                          = EntriesNotFor(calls[c].ops, a.entityType, a.entityId)

\* A delete was added for a key whose update was queued next to an
\* operation of another key: the key's one operation is now a delete.
C13_Witness ==
    /\ AddPair("c1", "update", "delete")
    /\ Len(calls["c1"].ops) = 2
    /\ Len(log) = 2
    /\ \E i \in DOMAIN log :
          /\ log[i].entityId = calls["c1"].items[1].entityId
          /\ log[i].entityType = calls["c1"].items[1].entityType
          /\ log[i].operation = "delete"

(***************************************************************************)
(* Properties of the download phase.                                       *)
(***************************************************************************)
\* The download loop of caller c stands before a server record.
AtItem(c) ==
    /\ calls[c].kind = "sync" /\ calls[c].pc = "item"
    /\ calls[c].i <= Len(calls[c].items)

\* The server record the download loop of caller c stands before, and the
\* key a local copy of it has.
ItemOf(c) == calls[c].items[calls[c].i]
ItemKey(c) == <<calls[c].fam, ItemOf(c).id>>

\* The iteration of caller c's download loop taken in this step ended
\* without an exception and counted its record as downloaded.
Downloaded(c) == AtItem(c) /\ calls'[c].downloaded = calls[c].downloaded + 1

\* C14: download, local record absent. For a server entry or tag whose id
\* has no local record, the download phase creates a local record holding
\* the server's field values and leaves it with syncStatus synced, so that
\* a lookup by the server's id finds it.
C14_CreateWhenAbsent ==
    [][\A c \in Callers :
          (Downloaded(c) /\ ItemKey(c) \notin DOMAIN local)
          => /\ FindById(local', calls[c].fam, ItemOf(c).id)
             /\ local'[ItemKey(c)].title = ItemOf(c).title
             /\ local'[ItemKey(c)].syncStatus = "synced"]_vars

\* The local copy of a server record was live and synced when the pass of
\* caller c started (the upload phase writes no local record).
SyncedAtStart(c, k) ==
    /\ k \in DOMAIN calls[c].start.local
    /\ ~calls[c].start.local[k].deleted
    /\ calls[c].start.local[k].syncStatus = "synced"

\* The pass of caller c reported no failure for the record.
NoErrorFor(c, k) ==
    \A n \in DOMAIN calls[c].errors :
        ~(calls[c].errors[n].entityType = k[1] /\ calls[c].errors[n].entityId = k[2])

\* C15: download, local record synced. For a server record whose local
\* copy has syncStatus synced, an iteration that ends without an exception
\* overwrites the local fields with the server's values and leaves the
\* record synced; it still is, with those values, when the pass ends.
C15_OverwriteWhenSynced ==
    [][\A c \in Callers :
          /\ (/\ Downloaded(c)
              /\ FindById(local, calls[c].fam, ItemOf(c).id)
              /\ local[ItemKey(c)].syncStatus = "synced")
             => /\ local'[ItemKey(c)].title = ItemOf(c).title
                /\ local'[ItemKey(c)].syncStatus = "synced"
                /\ ~local'[ItemKey(c)].deleted
                /\ nextLocal' = nextLocal
          /\ (calls[c].pc = "finish" /\ calls'[c].pc = "done")
             => \A k \in calls[c].seen :
                    (SyncedAtStart(c, k) /\ NoErrorFor(c, k))
                    => /\ local[k].syncStatus = "synced"
                       /\ local[k].title = server[k].title
                       /\ local' = local]_vars

\* A pass is at its end after it overwrote, with another title, a local
\* entry that was synced when the pass started.
C15_Witness ==
    /\ calls["c1"].pc = "finish" /\ calls["c1"].errors = <<>>
    /\ \E k \in calls["c1"].seen :
          /\ k[1] = "entry"
          /\ SyncedAtStart("c1", k)
          /\ calls["c1"].start.local[k].title # local[k].title
          /\ local[k].title = server[k].title
          /\ local[k].syncStatus = "synced"

\* C16: download, local entry pending. If the server's updatedAt is not
\* newer than the local one, the local record is left unchanged and no
\* conflict is recorded, under any strategy. If it is newer, strategy
\* remote overwrites the local fields from the server and marks the record
\* synced, and strategy local leaves the record unchanged and records no
\* conflict.
C16_PendingEntry ==
    [][\A c \in Callers :
          (/\ AtItem(c) /\ calls[c].fam = "entry"
           /\ FindById(local, "entry", ItemOf(c).id)
           /\ local[ItemKey(c)].syncStatus = "pending"
           /\ calls'[c] # calls[c])
          => IF ItemOf(c).updatedAt <= local[ItemKey(c)].updatedAt
             THEN /\ local' = local
                  /\ calls'[c].conflicts = calls[c].conflicts
                  /\ calls'[c].downloaded = calls[c].downloaded
             ELSE /\ (calls[c].strategy = "remote" /\ calls'[c].errors = calls[c].errors)
                     => /\ local'[ItemKey(c)].title = ItemOf(c).title
                        /\ local'[ItemKey(c)].syncStatus = "synced"
                        /\ calls'[c].conflicts = calls[c].conflicts
                  /\ calls[c].strategy = "local"
                     => /\ local' = local
                        /\ calls'[c].conflicts = calls[c].conflicts
                        /\ calls'[c].downloaded = calls[c].downloaded]_vars

\* The local entry was live and pending when the pass of caller c started.
PendingAtStart(c, k) ==
    /\ k \in DOMAIN calls[c].start.local
    /\ k[1] = "entry"
    /\ ~calls[c].start.local[k].deleted
    /\ calls[c].start.local[k].syncStatus = "pending"

\* A pass under strategy remote is at its end after it overwrote, with the
\* title of a newer server entry, a local entry that was pending.
C16_Witness ==
    /\ calls["c1"].pc = "finish" /\ calls["c1"].strategy = "remote"
    /\ \E k \in calls["c1"].seen :
          /\ PendingAtStart("c1", k)
          /\ calls["c1"].start.local[k].title # local[k].title
          /\ local[k].title = server[k].title
          /\ local[k].syncStatus = "synced"
          /\ server[k].updatedAt > calls["c1"].start.local[k].updatedAt

\* A pass under strategy manual is at its end after it met a pending
\* local entry whose server copy, with another title, was not newer: the
\* entry is as it was and no conflict is recorded.
C16_WitnessNotNewer ==
    /\ calls["c1"].pc = "finish" /\ calls["c1"].strategy = "manual"
    /\ calls["c1"].conflicts = <<>> /\ calls["c1"].errors = <<>>
    /\ \E k \in calls["c1"].seen :
          /\ PendingAtStart("c1", k)
          /\ local[k] = calls["c1"].start.local[k]
          /\ server[k].updatedAt <= local[k].updatedAt

(***************************************************************************)
(* Properties of resolveConflict() and getMetadata().                      *)
(***************************************************************************)
\* A resolveConflict() call of caller c returns or throws in this step.
Resolves(c) == calls[c].pc = "idle" /\ calls'[c].pc = "done" /\ calls'[c].kind = "resolve"

\* C17: resolveConflict(id, s) on a stored conflict: s = local re-uploads
\* the stored local snapshot, s = remote writes the stored remote snapshot
\* into the local record and marks it synced, s = manual touches neither
\* store; in all three cases the conflict then has resolvedAt and
\* resolution = s and is no longer returned by getConflicts(). When the id
\* is unknown or the upload / local write throws, the call throws and the
\* Conflict Store is unchanged.
C17_ResolveConflict ==
    [][\A c \in Callers :
          Resolves(c) =>
            LET id == calls'[c].ret[1].id
                s == calls'[c].ret[1].strategy
                idx == FindConflict(conflictStore, id)
                cf == conflictStore[idx]
                k == <<cf.entityType, cf.entityId>>
            IN IF calls'[c].fatal
               THEN conflictStore' = conflictStore
               ELSE /\ idx > 0
                    /\ s = "local" =>
                          /\ server'[<<cf.entityType, cf.localData.id>>].title
                                 = cf.localData.title
                          /\ local' = local
                    /\ s = "remote" =>
                          /\ FindById(local', k[1], k[2])
                          /\ local'[k].title = SnapshotTitle(cf.remoteData, local[k].title)
                          /\ local'[k].syncStatus = "synced"
                          /\ server' = server
                    /\ s = "manual" => local' = local /\ server' = server
                    /\ conflictStore'[idx].resolved
                    /\ conflictStore'[idx].resolution = s
                    /\ \A n \in DOMAIN GetConflicts(conflictStore') :
                           GetConflicts(conflictStore')[n].id # id]_vars

\* The same, for the calls in which the write of the Conflict Store
\* succeeds: whenever resolveConflict returns normally and the stored
\* conflict is marked, the strategy's effect was applied.
C17_WhenStored ==
    [][\A c \in Callers :
          (Resolves(c) /\ conflictStore' # conflictStore) =>
            LET id == calls'[c].ret[1].id
                s == calls'[c].ret[1].strategy
                idx == FindConflict(conflictStore, id)
                cf == conflictStore[idx]
                k == <<cf.entityType, cf.entityId>>
            IN /\ ~calls'[c].fatal /\ idx > 0
               /\ s = "local" =>
                     /\ server'[<<cf.entityType, cf.localData.id>>].title
                            = cf.localData.title
                     /\ local' = local
               /\ s = "remote" =>
                     /\ FindById(local', k[1], k[2])
                     /\ local'[k].title = SnapshotTitle(cf.remoteData, local[k].title)
                     /\ local'[k].syncStatus = "synced"
                     /\ server' = server
               /\ s = "manual" => local' = local /\ server' = server
               /\ conflictStore' = MarkResolved(conflictStore, idx, s)]_vars

\* The conflicts of the store nobody resolved yet.
Unresolved(store) == {n \in DOMAIN store : ~store[n].resolved}

C18_WitnessBulk ==
    /\ Quiet
    /\ metadata.lastSyncResult # "none"
    /\ metadata.pendingOperationsCount = 0
    /\ Len(log) > 0

(***************************************************************************)
(* Properties of uploadAllLocalData().                                     *)
(***************************************************************************)
\* The result of caller c reports a failure for the record.
ReportedIn(errors, k) ==
    \E n \in DOMAIN errors : errors[n].entityType = k[1] /\ errors[n].entityId = k[2]

\* C19: uploadAllLocalData pushes every record with syncStatus pending, in
\* every entity family: a record whose upload succeeds is marked synced
\* and counted in uploadedCount, a record whose upload fails stays pending
\* and is reported in errors[], and when no upload fails no record is left
\* pending.
C19_UploadAll ==
    [][\A c \in Callers :
          /\ (/\ calls[c].kind = "uploadAll" /\ calls[c].pc = "push"
              /\ calls[c].i <= Len(calls[c].items) /\ calls'[c] # calls[c])
             => LET k == <<calls[c].fam, calls[c].items[calls[c].i].id>>
                IN IF calls'[c].errors = calls[c].errors
                   THEN /\ local'[k].syncStatus = "synced"
                        /\ calls'[c].uploaded = calls[c].uploaded + 1
                   ELSE /\ local'[k].syncStatus = "pending"
                        /\ calls'[c].uploaded = calls[c].uploaded
                        /\ ReportedIn(calls'[c].errors, k)
          /\ (calls[c].pc = "finishAll" /\ calls'[c].pc = "done")
             => /\ calls'[c].ret[1].uploadedCount = calls[c].uploaded
                /\ calls'[c].ret[1].errors = calls[c].errors
                /\ \A k \in DOMAIN local :
                      local[k].syncStatus = "pending"
                          => ReportedIn(calls[c].errors, k)]_vars

\* The same for the families uploadAllLocalData reads (entries and tags
\* here; sources and review states are pushed by the same loop).
C19_FamiliesRead ==
    [][\A c \in Callers :
          (calls[c].pc = "finishAll" /\ calls'[c].pc = "done")
          => \A k \in DOMAIN local :
                (k[1] \in Families /\ local[k].syncStatus = "pending")
                    => ReportedIn(calls[c].errors, k)]_vars

(***************************************************************************)
(* Properties of the local store.                                          *)
(***************************************************************************)
\* The local entries that were soft-deleted.
SoftDeleted(tbl) == {k \in DOMAIN tbl : k[1] = "entry" /\ tbl[k].deleted}

\* C20: soft-delete exclusion. After delete(id) soft-deleted an entry,
\* list() never returns the record, while findById(id) still returns it,
\* with deletedAt set.
C20_SoftDeleteExclusion ==
    \A k \in SoftDeleted(local) :
        /\ \A n \in DOMAIN RepoList(local, "entry") : RepoList(local, "entry")[n] # k
        /\ FindById(local, "entry", k[2])

\* The half of it that list() alone decides.
C20_ListExcludes ==
    \A k \in SoftDeleted(local) :
        \A n \in DOMAIN RepoList(local, "entry") : RepoList(local, "entry")[n] # k


(***************************************************************************)
(* Properties of the repositories' soft delete.                            *)
(***************************************************************************)
\* A delete(id) call has returned; its frame holds id, store and result.
DeleteDone(c) == calls[c].pc = "done" /\ calls[c].kind = "delete"

DeletedKey(c) == <<"entry", calls[c].items[1]>>

LiveBefore(c) ==
    /\ DeletedKey(c) \in DOMAIN calls[c].start.local
    /\ ~calls[c].start.local[DeletedKey(c)].deleted

\* C21: soft delete of an entry (or source) sets deletedAt and
\* syncStatus=pending and returns true for a live record; it returns false,
\* and changes nothing, when the record is absent or already soft-deleted.
C21_SoftDelete ==
    \A c \in Callers :
        DeleteDone(c) =>
            IF LiveBefore(c)
            THEN /\ calls[c].ret[1] = TRUE
                 /\ local[DeletedKey(c)].deleted
                 /\ local[DeletedKey(c)].syncStatus = "pending"
            ELSE calls[c].ret[1] = FALSE

\* The part of C21 the code keeps: true and the marks for a live record,
\* false and an unchanged store for an absent one.
C21_LiveOrAbsent ==
    \A c \in Callers :
        DeleteDone(c) =>
            /\ LiveBefore(c) =>
                   /\ calls[c].ret[1] = TRUE
                   /\ local[DeletedKey(c)].deleted
                   /\ local[DeletedKey(c)].syncStatus = "pending"
            /\ DeletedKey(c) \notin DOMAIN calls[c].start.local =>
                   /\ calls[c].ret[1] = FALSE
                   /\ local = calls[c].start.local

\* delete(id) returned true for a record that was already soft-deleted.
C21_DeletedAgain ==
    \E c \in Callers :
        /\ DeleteDone(c) /\ calls[c].ret[1] = TRUE
        /\ DeletedKey(c) \in DOMAIN calls[c].start.local
        /\ calls[c].start.local[DeletedKey(c)].deleted

(***************************************************************************)
(* Properties of the review scheduling.                                    *)
(***************************************************************************)
\* A markReviewed call has returned its updated state.
Reviewed(c) ==
    calls[c].pc = "done" /\ calls[c].kind = "markReviewed" /\ ~calls[c].fatal

\* The scheduling fields the call found, and its rating.
Given(c) == CurrentState(calls[c].start.local, calls[c].items[1].entryId)
Rated(c) == calls[c].items[1].rating

Scheduled(r) ==
    [intervalDays |-> r.intervalDays, ease |-> r.ease, reps |-> r.reps,
     lapses |-> r.lapses]

\* round(x) for x = num/den >= 0, by cases on the fraction.
Rounded(num, den) ==
    IF 2 * (num % den) >= den THEN (num \div den) + 1 ELSE num \div den

AtLeast(lo, x) == IF x < lo THEN lo ELSE x
AtMost(hi, x) == IF x > hi THEN hi ELSE x

\* The schedule the specification gives (ease in hundredths).
Sm2(g, rating) ==
    CASE rating = "again" ->
            [intervalDays |-> 1, ease |-> AtLeast(130, g.ease - 20),
             reps |-> 0, lapses |-> g.lapses + 1]
      [] rating = "hard" ->
            [intervalDays |-> AtLeast(1, Rounded(g.intervalDays * 12, 10)),
             ease |-> AtLeast(130, g.ease - 15),
             reps |-> g.reps + 1, lapses |-> g.lapses]
      [] rating = "good" ->
            [intervalDays |-> IF g.intervalDays = 0 THEN 1
                              ELSE AtLeast(1, Rounded(g.intervalDays * g.ease, 100)),
             ease |-> g.ease,
             reps |-> g.reps + 1, lapses |-> g.lapses]
      [] rating = "easy" ->
            [intervalDays |-> IF g.intervalDays = 0 THEN 2
                              ELSE AtLeast(1, Rounded(g.intervalDays * g.ease * 13, 1000)),
             ease |-> AtMost(300, g.ease + 10),
             reps |-> g.reps + 1, lapses |-> g.lapses]

\* C22: the scheduling step is a function of (ease, intervalDays, reps,
\* lapses, rating) alone, with the values the specification lists for
\* again, hard, good and easy; (2.5, 6, good) gives 15 days, (2.5, 0,
\* again) gives interval 1 and ease 2.3, (1.35, 10, again) gives ease 1.3.
C22_Schedule ==
    \A c \in Callers :
        Reviewed(c) =>
            /\ Scheduled(calls[c].ret[1]) = Sm2(Given(c), Rated(c))
            /\ (Given(c).ease = 250 /\ Given(c).intervalDays = 6 /\ Rated(c) = "good")
                  => calls[c].ret[1].intervalDays = 15 /\ calls[c].ret[1].ease = 250
            /\ (Given(c).ease = 250 /\ Given(c).intervalDays = 0 /\ Rated(c) = "again")
                  => calls[c].ret[1].intervalDays = 1 /\ calls[c].ret[1].ease = 230
            /\ (Given(c).ease = 135 /\ Given(c).intervalDays = 10 /\ Rated(c) = "again")
                  => calls[c].ret[1].ease = 130

\* An entry at ease 2.5 and interval 6 was rated good and is due in 15
\* days.
C22_Witness ==
    /\ Reviewed("c1") /\ Rated("c1") = "good"
    /\ Given("c1").ease = 250 /\ Given("c1").intervalDays = 6
    /\ calls["c1"].ret[1].intervalDays = 15
    /\ calls["c1"].ret[1].dueAt = AddDays(now, 15)

\* An entry at ease 1.35 was rated again: the ease stops at the floor.
C22_WitnessFloor ==
    /\ Reviewed("c1") /\ Rated("c1") = "again"
    /\ Given("c1").ease = 135 /\ Given("c1").intervalDays = 10
    /\ calls["c1"].ret[1].ease = 130 /\ calls["c1"].ret[1].reps = 0

ReviewStates(tbl) == {k \in DOMAIN tbl : k[1] = "reviewState"}
ReviewEvents(tbl) == {k \in DOMAIN tbl : k[1] = "reviewEvent"}

C23_WitnessAgain ==
    /\ Reviewed("c1") /\ Rated("c1") = "again"
    /\ Given("c1").reps > 0 /\ Given("c1").lapses > 0
    /\ calls["c1"].ret[1].reps = 0 /\ calls["c1"].ret[1].lapses = Given("c1").lapses + 1

\* The step is a call of `kind` by caller c.
CallStep(c, kind) == calls[c].pc = "idle" /\ calls'[c].kind = kind

\* The fields of a review event that are never to change.
EventFacts(e) ==
    [entryId |-> e.entryId, rating |-> e.rating, reviewedAt |-> e.reviewedAt,
     scheduledDueAt |-> e.scheduledDueAt]

\* Every event there was is still there, as it was.
EventsKept ==
    \A k \in ReviewEvents(local) :
        k \in DOMAIN local' /\ EventFacts(local'[k]) = EventFacts(local[k])

\* A markReviewed that returns leaves the entry's one state row and adds
\* exactly one event, holding the rating and the due date scheduled.
OneEventAdded(c) ==
    (CallStep(c, "markReviewed") /\ ~calls'[c].fatal)
    => LET a == calls'[c].items[1]
           added == ReviewEvents(local') \ ReviewEvents(local)
       IN /\ HasState(local', a.entryId)
          /\ Cardinality(added) = 1
          /\ \A k \in added :
                /\ local'[k].entryId = a.entryId
                /\ local'[k].rating = a.rating
                /\ local'[k].scheduledDueAt = local'[StateKey(a.entryId)].dueAt
                /\ local'[k].reviewedAt = now'

\* No state row is ever removed, and a step that is no markReviewed adds
\* no event.
RowsOnlyGrow ==
    /\ ReviewStates(local) \subseteq ReviewStates(local')
    /\ (\A c \in Callers : ~CallStep(c, "markReviewed"))
          => ReviewEvents(local') = ReviewEvents(local)

StatsDone(c) == calls[c].pc = "done" /\ calls[c].kind = "getTodayStats"

\* The calendar days that have at least one review event.
ReviewDays == {DayOf(local[k].reviewedAt) : k \in ReviewEvents(local)}

\* The number of consecutive review days ending on day d.
RECURSIVE RunEndingOn(_)
RunEndingOn(d) == IF d \notin ReviewDays THEN 0 ELSE 1 + RunEndingOn(d - 1)

Today == DayOf(now)

ExpectedStreak ==
    IF Today \in ReviewDays THEN RunEndingOn(Today)
    ELSE IF Today - 1 \in ReviewDays THEN RunEndingOn(Today - 1)
    ELSE 0

\* C25: the streak is the number of consecutive calendar days with at
\* least one review event, counted backward from today when today has an
\* event, otherwise from yesterday when yesterday has one, and 0 otherwise:
\* events on D, D-1, D-2 and none on D-3 give 3, events only on D-2 give 0.
C25_Streak ==
    \A c \in Callers :
        StatsDone(c) =>
            /\ calls[c].ret[1].streak = ExpectedStreak
            /\ ReviewDays = {Today, Today - 1, Today - 2} => calls[c].ret[1].streak = 3
            /\ ReviewDays = {Today - 2} => calls[c].ret[1].streak = 0

\* What holds of the code: the claim, for a history of at most StreakLimit
\* review events.
C25_UpToLimit ==
    \A c \in Callers :
        (StatsDone(c) /\ Cardinality(ReviewEvents(local)) <= StreakLimit)
            => calls[c].ret[1].streak = ExpectedStreak

\* A hundred reviews today hide yesterday's from the streak.
C25_CutOff ==
    \E c \in Callers :
        /\ StatsDone(c) /\ calls[c].ret[1].streak = 1
        /\ {Today, Today - 1} \subseteq ReviewDays
        /\ calls[c].ret[1].reviewedToday = StreakLimit

(***************************************************************************)
(* Properties of the upload phase across entity types.                     *)
(***************************************************************************)
\* The remote store shows the call that `op` stands for.
RemoteDone(srv, after, op) ==
    CASE op.operation = "create" ->
            \E k \in DOMAIN after \ DOMAIN srv :
                k[1] = op.entityType /\ after[k].title = op.payload.title
      [] op.operation = "update" ->
            /\ <<op.entityType, op.payload.id>> \in DOMAIN after
            /\ after[<<op.entityType, op.payload.id>>].title = op.payload.title
      [] op.operation = "delete" ->
            /\ <<op.entityType, op.payload.id>> \in DOMAIN after
            /\ after[<<op.entityType, op.payload.id>>].deleted

\* The upload loop of caller c takes its call for the operation at hand,
\* and the call does not fail.
CallSucceeds(c) ==
    /\ calls[c].pc = "upload" /\ calls'[c].pc = "settle"
    /\ calls'[c].outcome = "ok"

\* The upload loop of caller c removes and counts the operation at hand.
Counted(c) ==
    /\ calls[c].pc = "settle" /\ calls'[c].pc = "upload"
    /\ calls'[c].uploaded = calls[c].uploaded + 1

\* C26: for every pending operation of every entity type the upload phase
\* issues the corresponding remote create/update/delete call, and the
\* operation is removed from the log and counted in uploadedCount only if
\* that remote call succeeded.
C26_UploadByType ==
    [][\A c \in Callers :
          /\ CallSucceeds(c) => RemoteDone(server, server', calls[c].ops[calls[c].i])
          /\ Counted(c) =>
                /\ FindIndexById(log', calls[c].ops[calls[c].i].id) = 0
                /\ \/ calls[c].outcome = "ok"
                   \/ calls[c].outcome = ConflictError /\ calls[c].strategy = "local"]_vars

\* What holds of the code: the same, for the operations of entries and
\* tags (and of sources, whose case has the same shape).
C26_RecordTypes ==
    [][\A c \in Callers :
          /\ (CallSucceeds(c) /\ calls[c].ops[calls[c].i].entityType \in RemoteTypes)
                => RemoteDone(server, server', calls[c].ops[calls[c].i])
          /\ Counted(c) =>
                /\ FindIndexById(log', calls[c].ops[calls[c].i].id) = 0
                /\ \/ calls[c].outcome = "ok"
                   \/ calls[c].outcome = ConflictError /\ calls[c].strategy = "local"]_vars

\* An entryTag operation was removed from the log and counted while the
\* server was never called for it.
C26_JoinRowDropped ==
    /\ calls["c1"].pc = "upload" /\ calls["c1"].uploaded = 3
    /\ \E i \in DOMAIN calls["c1"].ops : calls["c1"].ops[i].entityType = "entryTag"
    /\ log = <<>>
    /\ \A k \in DOMAIN server : k[1] \in {"entry", "tag"}

(***************************************************************************)
(* Properties of the data service beside a running sync pass.              *)
(***************************************************************************)
\* The remote store holds what the operation asks for.
Delivered(srv, op) ==
    IF op.operation = "delete"
    THEN /\ <<op.entityType, op.payload.id>> \in DOMAIN srv
         /\ srv[<<op.entityType, op.payload.id>>].deleted
    ELSE \E k \in DOMAIN srv :
            k[1] = op.entityType /\ ~srv[k].deleted /\ srv[k].title = op.payload.title

\* C27: no local edit is dropped by a concurrently running sync pass: when
\* add() coalesced into an operation (keeping its id) after sync() read
\* its snapshot of the log, then at the removal of that operation the
\* payload the log holds under that id is the payload that was sent, or
\* the server has it.
C27_NoEditDropped ==
    [][\A c \in Callers :
          LET op == calls[c].ops[calls[c].i]
              at == FindIndexById(log, op.id)
          IN (Counted(c) /\ at > 0)
                => \/ /\ log[at].payload = op.payload
                      /\ log[at].operation = op.operation
                   \/ Delivered(server', log[at])]_vars

\* The pass uploaded the create of a record with its first title and
\* emptied the log, while the record had been given another title that
\* the server does not have.
C27_EditDropped ==
    /\ calls["c1"].pc = "upload" /\ calls["c1"].uploaded = 1
    /\ log = <<>>
    /\ \E i \in DOMAIN calls["c1"].ops :
          LET op == calls["c1"].ops[i]
              key == <<op.entityType, op.entityId>>
          IN /\ op.operation = "create"
             /\ key \in DOMAIN local
             /\ ~local[key].deleted
             /\ local[key].syncStatus = "pending"
             /\ local[key].title # op.payload.title
             /\ \A k \in DOMAIN server : server[k].title # local[key].title

\* The immediate attempt of the create of record <<f, id>> reached the
\* server: its call is past the attempt, or the record was marked synced
\* (which, for a record under a local id, only the create's confirmation
\* does).
CreateDelivered(f, id) ==
    \/ <<f, id>> \in DOMAIN local /\ local[<<f, id>>].syncStatus = "synced"
    \/ \E d \in Callers :
          /\ calls[d].kind = "mutate" /\ calls[d].pc \in {"confirm", "done"}
          /\ calls[d].outcome = "ok"
          /\ calls[d].items[1] = Mutation("create", f, id, calls[d].items[1].title)

\* The upload loop of caller c has just created the record on the server.
CreateUploaded(c, f, id) ==
    /\ calls[c].kind = "sync" /\ calls[c].pc = "settle" /\ calls[c].outcome = "ok"
    /\ LET op == calls[c].ops[calls[c].i]
       IN op.operation = "create" /\ op.entityType = f /\ op.entityId = id

\* C28: each locally created record causes at most one remote create call:
\* a sync pass makes no successful create call for a record whose create
\* the immediate attempt already delivered, and the immediate attempt
\* makes none for a record whose create a running pass has just uploaded.
C28_OneRemoteCreate ==
    [][/\ \A c \in Callers :
             LET op == calls[c].ops[calls[c].i]
             IN (CallSucceeds(c) /\ op.operation = "create" /\ RemoteCalled(op))
                   => ~CreateDelivered(op.entityType, op.entityId)
       /\ \A d \in Callers :
             (/\ calls[d].kind = "mutate" /\ calls[d].pc = "attempt"
              /\ calls'[d].outcome = "ok"
              /\ calls[d].items[1].operation = "create")
                => \A c \in Callers :
                      ~CreateUploaded(c, calls[d].items[1].entityType,
                                      calls[d].items[1].entityId)]_vars

\* One record was ever created on the device, and the server holds two.
C28_CreatedTwice ==
    /\ nextLocal = 1
    /\ Cardinality(DOMAIN server) = 2
    /\ \A k \in DOMAIN server :
          /\ <<k[1], LocalId(1)>> \in DOMAIN local
          /\ server[k].title = local[<<k[1], LocalId(1)>>].title

\* Caller d's mutation ends its confirmation (markSynced and remove ran).
Confirmed(d) ==
    /\ calls[d].kind = "mutate" /\ calls[d].pc = "confirm"
    /\ calls'[d].pc = "done"
    /\ faults' = faults

\* The record of the mutation is marked synced (a deleted record is not
\* marked).
MarkedSynced(tbl, m) ==
    (m.operation # "delete" /\ <<m.entityType, m.entityId>> \in DOMAIN tbl)
        => tbl[<<m.entityType, m.entityId>>].syncStatus = "synced"

\* C29: when a mutation's immediate network attempt succeeds, the sync is
\* confirmed: the local record is marked synced and the log no longer
\* holds an operation for that entity.
C29_Confirmed ==
    [][\A d \in Callers :
          Confirmed(d) =>
             LET m == calls[d].items[1]
             IN /\ MarkedSynced(local', m)
                /\ FindIndex(log', m.entityType, m.entityId) = 0]_vars

\* What holds of the code: the record is marked synced.
C29_MarkedSynced ==
    [][\A d \in Callers :
          Confirmed(d) => MarkedSynced(local', calls[d].items[1])]_vars

\* With no sync pass ever started, a create was confirmed, its record is
\* synced, and its operation is still in the log.
C29_StillQueued ==
    /\ started = 0
    /\ calls["c2"].kind = "mutate" /\ calls["c2"].pc = "done"
    /\ calls["c2"].outcome = "ok"
    /\ LET m == calls["c2"].items[1]
       IN /\ m.operation = "create"
          /\ local[<<m.entityType, m.entityId>>].syncStatus = "synced"
          /\ FindIndex(log, m.entityType, m.entityId) > 0

\* Caller d's mutation starts: the step of the local commit.
Commits(d) == calls[d].pc = "idle" /\ calls'[d].kind = "mutate"

\* Caller d's immediate attempt fails.
AttemptFails(d) ==
    /\ calls[d].kind = "mutate" /\ calls[d].pc = "attempt"
    /\ calls'[d] # calls[d] /\ calls'[d].outcome # "ok"

\* The mutation's record, where the store still has it, is pending.
StaysPending(tbl, m) ==
    <<m.entityType, m.entityId>> \in DOMAIN tbl
        => tbl[<<m.entityType, m.entityId>>].syncStatus = "pending"

SettlesConflict(c, strategy) ==
    /\ calls[c].pc = "settle" /\ calls[c].outcome = ConflictError
    /\ calls[c].strategy = strategy

C31_LocalResolves ==
    /\ [](nextConflict = 0 /\ conflictStore = <<>>)
    /\ <>[](~SettlesConflict("c1", "local"))

\* A pass has run to its end, and a further pass under remote has met the
\* conflict again: the operation is in the log as it was.
C31_StillQueued ==
    /\ metadata.lastSyncAt >= 0
    /\ calls["c1"].pc = "list" /\ calls["c1"].strategy = "remote"
    /\ calls["c1"].attempted = <<1>>
    /\ \E title \in Titles : log = StaleOp(title)

\* The upload loop of caller c ends its handling of the operation at hand.
Settles(c) == calls[c].pc = "settle" /\ calls'[c].pc # "settle"

\* C32: when an upload fails with a conflict under strategy manual, the
\* pass records one SyncConflict for the operation's entity whose local
\* snapshot is the operation's payload and whose remote snapshot is the
\* empty placeholder, and the operation is left in the log as it is:
\* neither removed nor marked failed, nor counted or reported as an error.
C32_ManualConflict ==
    [][\A c \in Callers :
          (SettlesConflict(c, "manual") /\ Settles(c)) =>
             LET op == calls[c].ops[calls[c].i]
                 n == Len(calls'[c].conflicts)
             IN /\ n = Len(calls[c].conflicts) + 1
                /\ SubSeq(calls'[c].conflicts, 1, n - 1) = calls[c].conflicts
                /\ calls'[c].conflicts[n].entityType = op.entityType
                /\ calls'[c].conflicts[n].entityId = op.entityId
                /\ calls'[c].conflicts[n].localData = op.payload
                /\ calls'[c].conflicts[n].remoteData = EmptySnapshot
                /\ ~calls'[c].conflicts[n].resolved
                /\ log' = log
                /\ calls'[c].errors = calls[c].errors
                /\ calls'[c].uploaded = calls[c].uploaded]_vars

\* A pass under manual has met a conflict in its upload phase: it holds
\* one SyncConflict with the empty remote snapshot, and the operation is
\* still in the log.
C32_Witness ==
    /\ calls["c1"].pc = "upload" /\ calls["c1"].strategy = "manual"
    /\ Len(calls["c1"].conflicts) = 1
    /\ calls["c1"].conflicts[1].remoteData = EmptySnapshot
    /\ calls["c1"].conflicts[1].localData # EmptySnapshot
    /\ FindIndex(log, "entry", calls["c1"].conflicts[1].entityId) > 0

\* The force upload of caller c's settle step succeeded: the entry is on
\* the server under a new id, with the operation's title.
ForceUploaded(c) ==
    /\ nextSrv' = nextSrv + 1
    /\ <<"entry", ServerId(nextSrv')>> \in DOMAIN server'
    /\ server'[<<"entry", ServerId(nextSrv')>>].title = calls[c].ops[calls[c].i].payload.title

\* The operation at hand was marked failed, stays queued and is reported.
FailedAndReported(c) ==
    LET op == calls[c].ops[calls[c].i]
        n == Len(calls'[c].errors)
    IN /\ log' = MarkFailed(log, op.id, ConflictError)
       /\ calls'[c].uploaded = calls[c].uploaded
       /\ n = Len(calls[c].errors) + 1
       /\ calls'[c].errors[n] = ErrorEntry(op.entityType, op.entityId, ConflictError, TRUE)

C33_WitnessForced ==
    /\ calls["c1"].pc = "upload" /\ calls["c1"].strategy = "local"
    /\ calls["c1"].uploaded = 1 /\ calls["c1"].errors = <<>>
    /\ Len(calls["c1"].ops) = 1 /\ calls["c1"].ops[1].operation = "update"
    /\ log = <<>>
    /\ nextSrv = 2

(***************************************************************************)
(* Properties of overlapping log calls.                                    *)
(***************************************************************************)
\* The entity a completed call was about: add's arguments, or the entity
\* of the operation that remove / markFailed named (none when the call
\* found no such operation).
EntityOf(fr) ==
    IF fr.kind = "add" THEN <<fr.items[1].entityType, fr.items[1].entityId>>
    ELSE LET at == FindIndexById(fr.ops, fr.items[1].id)
         IN IF at > 0 THEN <<fr.ops[at].entityType, fr.ops[at].entityId>>
            ELSE <<"none", NoId>>

\* The log shows what the completed call did to its entity.
Kept(fr) ==
    LET e == EntityOf(fr)
        made == Modified(fr)
        at == FindIndex(made, e[1], e[2])
        now_at == FindIndex(log, e[1], e[2])
    IN IF at = 0 THEN now_at = 0
       ELSE now_at > 0 /\ log[now_at] = made[at]

\* Two completed calls, one of them an add, about different entities.
BothDone ==
    /\ \A c \in Callers : calls[c].pc = "done"
    /\ \E c \in Callers : calls[c].kind = "add"
    /\ EntityOf(calls["c1"]) # EntityOf(calls["c2"])
    /\ \A c \in Callers : EntityOf(calls[c])[1] # "none"

\* C34: interleaved log writes lose nothing: when two log calls for
\* different entities (add/add, add/remove, add/markFailed) overlap at
\* their load-then-save await points, every operation added by a completed
\* add() is in the log afterwards, every operation removed by a completed
\* remove() is absent, and a marked one is marked.
C34_NothingLost == BothDone => \A c \in Callers : Kept(calls[c])

\* Two add() calls for different entities both loaded the empty log; both
\* returned; the log holds one operation.
C34_AddLost ==
    /\ \A c \in Callers :
          calls[c].pc = "done" /\ calls[c].kind = "add" /\ calls[c].ops = <<>>
    /\ EntityOf(calls["c1"]) # EntityOf(calls["c2"])
    /\ Len(log) = 1

(***************************************************************************)
(* Properties of repeated passes.                                          *)
(***************************************************************************)
\* Caller c's pass runs to completion in this step, and the pass before it
\* completed without errors or conflicts.
SecondPassEnds(c) ==
    /\ calls[c].pc = "finish" /\ calls'[c].pc = "done"
    /\ metadata.lastSyncResult = "success" /\ metadata.conflictsCount = 0

\* C35: sync is idempotent at quiescence: after a pass that completed
\* without errors or conflicts, a second pass with no local or remote
\* change in between uploads nothing and leaves the local records (ids
\* and field values) as they were.
C35_Idempotent ==
    [][\A c \in Callers :
          SecondPassEnds(c) =>
             /\ calls[c].uploaded = 0
             /\ local = calls[c].start.local]_vars

\* No local edit was ever made; two passes ran without an error; the one
\* server entry is in the local store twice.
C35_CopiedAgain ==
    /\ nextOp = 0 /\ log = <<>>
    /\ calls["c1"].pc = "done" /\ calls["c1"].kind = "sync"
    /\ calls["c1"].ret[1].success /\ metadata.lastSyncResult = "success"
    /\ Cardinality(DOMAIN server) = 1
    /\ DOMAIN local = {<<"entry", LocalId(1)>>, <<"entry", LocalId(2)>>}
    /\ local[<<"entry", LocalId(1)>>].title = local[<<"entry", LocalId(2)>>].title

C36_RecordedTwice ==
    /\ Len(conflictStore) = 2
    /\ ~conflictStore[1].resolved /\ ~conflictStore[2].resolved
    /\ conflictStore[1].entityType = conflictStore[2].entityType
    /\ conflictStore[1].entityId = conflictStore[2].entityId
    /\ conflictStore[1].remoteData = EmptySnapshot
    /\ conflictStore[2].remoteData # EmptySnapshot

\* C37: a record created and then deleted locally does not survive on the
\* server, also when the delete is enqueued while the record's create is
\* being uploaded: the upload phase never creates on the server a record
\* that is by then deleted locally with no operation left in the log to
\* delete it there.
C37_DeletedNotUploaded ==
    [][\A c \in Callers :
          LET op == calls[c].ops[calls[c].i]
          IN (CallSucceeds(c) /\ op.operation = "create" /\ RemoteCalled(op))
                => \/ FindById(local, op.entityType, op.entityId)
                   \/ FindIndex(log, op.entityType, op.entityId) > 0]_vars

\* The entry was created and deleted on the device; a pass has ended with
\* success, the log is empty, and the server holds the entry, live.
C37_Survives ==
    /\ log = <<>>
    /\ calls["c1"].pc = "done" /\ calls["c1"].kind = "sync"
    /\ ~calls["c1"].fatal /\ calls["c1"].ret[1].success
    /\ calls["c2"].pc = "idle"
    /\ <<"entry", LocalId(1)>> \in DOMAIN local
    /\ local[<<"entry", LocalId(1)>>].deleted
    /\ \E k \in DOMAIN server :
          /\ k[1] = "entry" /\ ~server[k].deleted
          /\ server[k].title = local[<<"entry", LocalId(1)>>].title

(***************************************************************************)
(* Properties of the download phase across entity families.                *)
(***************************************************************************)
\* The download loop of caller c handles the server record at hand, and
\* no local store call throws.
Reconciles(c) ==
    /\ calls[c].pc = "item" /\ calls'[c].pc = "item"
    /\ calls'[c].i = calls[c].i + 1
    /\ calls'[c].errors = calls[c].errors

\* The server record at hand meets a pending local record of its id.
MeetsPending(c) ==
    LET k == <<calls[c].fam, calls[c].items[calls[c].i].id>>
    IN k \in DOMAIN local /\ ~local[k].deleted /\ local[k].syncStatus = "pending"

\* The reconciliation by timestamp the spec describes, for the record at
\* hand of family calls[c].fam.
ByTimestamp(c) ==
    LET item == calls[c].items[calls[c].i]
        k == <<calls[c].fam, item.id>>
        n == Len(calls'[c].conflicts)
    IN IF item.updatedAt <= local[k].updatedAt THEN local' = local
       ELSE IF calls[c].strategy = "remote"
       THEN /\ local'[k].title = item.title
            /\ local'[k].syncStatus = "synced"
       ELSE IF calls[c].strategy = "manual"
       THEN /\ n = Len(calls[c].conflicts) + 1
            /\ calls'[c].conflicts[n].entityType = calls[c].fam
            /\ calls'[c].conflicts[n].entityId = item.id
            /\ calls'[c].conflicts[n].localData = Payload(item.id, local[k].title)
            /\ calls'[c].conflicts[n].remoteData = Payload(item.id, item.title)
            /\ local' = local
       ELSE local' = local

C38_EntriesByTimestamp ==
    [][\A c \in Callers :
          (Reconciles(c) /\ MeetsPending(c)) =>
             IF calls[c].fam = "entry" THEN ByTimestamp(c)
             ELSE local' = local /\ calls'[c].conflicts = calls[c].conflicts]_vars

\* A pass under remote has been through the tags: the pending tag, older
\* than the server's, still has its own title and is still pending.
C38_TagPassedOver ==
    /\ calls["c1"].pc = "finish" /\ calls["c1"].strategy = "remote"
    /\ calls["c1"].errors = <<>>
    /\ <<"tag", ServerId(1)>> \in calls["c1"].seen
    /\ local[<<"tag", ServerId(1)>>].syncStatus = "pending"
    /\ local[<<"tag", ServerId(1)>>].updatedAt < server[<<"tag", ServerId(1)>>].updatedAt
    /\ local[<<"tag", ServerId(1)>>].title # server[<<"tag", ServerId(1)>>].title

(***************************************************************************)
(* C39: sync metadata written by a pass that runs to completion.           *)
(***************************************************************************)
\* The step on which sync() leaves its try block with a result.
Completes(c) ==
    /\ calls[c].kind = "sync" /\ calls[c].pc = "finish"
    /\ calls'[c].pc = "done"

C39_WitnessSuccess ==
    \E c \in Callers :
        /\ calls[c].kind = "sync" /\ calls[c].pc = "done" /\ ~calls[c].fatal
        /\ calls[c].ret[1].errorCount = 0
        /\ calls[c].ret[1].conflictCount > 0
        /\ metadata.lastSyncResult = "success"

(***************************************************************************)
(* C40: the bulk upload and soft-deleted records.                          *)
(***************************************************************************)
\* The iteration of uploadPendingEntries on which client.entries.create
\* succeeded for the record under key k.
PushCreates(c, k) ==
    /\ calls[c].kind = "uploadAll" /\ calls[c].pc = "push"
    /\ calls[c].i <= Len(calls[c].items)
    /\ k = <<calls[c].fam, calls[c].items[calls[c].i].id>>
    /\ nextSrv' = nextSrv + 1

\* C40: uploadAllLocalData never creates on the server a record that is
\* soft-deleted locally: no iteration of the bulk upload calls create
\* successfully for a local row whose deletedAt is set.
C40_NoDeletedPushed ==
    [][\A c \in Callers : \A k \in DOMAIN local :
          PushCreates(c, k) => ~local[k].deleted]_vars

\* The bulk upload has ended; a soft-deleted local entry was counted as
\* uploaded and marked synced, and the server holds a live entry with its
\* title.
C40_DeletedIsLive ==
    \E c \in Callers : \E k \in SoftDeleted(local) : \E s \in DOMAIN server :
        /\ calls[c].kind = "uploadAll" /\ calls[c].pc = "done"
        /\ calls[c].ret[1].uploadedCount > 0
        /\ local[k].syncStatus = "synced"
        /\ s[1] = "entry" /\ SrvLive(server, s[1], s[2])
        /\ server[s].title = local[k].title
====
